---- MODULE Spec2Model ----
(***************************************************************************)
(* Verification model of the recipe crawl pipeline:                        *)
(*   - SupabaseRest, the retrying client of the backend (supabase_rest.py) *)
(*   - the Detail Worker main loop and write_staging (detail_worker.py)    *)
(*   - the harvester and its listing extraction (harvest.py, utils.py)     *)
(*   - the linked-data parser (jsonld_recipe.py)                           *)
(* Specifications:                                                         *)
(*   Spec              the Detail Worker driving the client                *)
(*   ClientSpec        the five client operations called on their own      *)
(*   UpsertSpec        a retried upsert against a destination table        *)
(*   HarvestSpec       the harvester, sequential and concurrent            *)
(*   FetchSpec         one listing fetch, attempt by attempt               *)
(*   SigSpec           signature_of_ids on a list and a rearrangement      *)
(*   ExtractSpec       extract_recipe_ids_from_listing                     *)
(*   WriteStagingSpec  write_staging against the staging tables            *)
(*   KeywordsSpec      _extract_keywords                                   *)
(*   ParserSpec        parse_jsonld_recipe                                 *)
(***************************************************************************)
EXTENDS Integers, Sequences, FiniteSets, TLC

(***************************************************************************)
(* Bounds of the model                                                     *)
(***************************************************************************)
MaxJobId == 2
MaxRecipeId == 2
MaxDate == 2
MaxKey == 2
MaxPages == 6
MaxBatch == 2
MaxListingId == 2
MaxSigLen == 3
MaxAnchors == 3
MaxChars == 4
MaxGraph == 2

JobIds == 1..MaxJobId
RecipeIds == 1..MaxRecipeId
Dates == 0..MaxDate

(***************************************************************************)
(* SupabaseRest: one request/response exchange and the retry loop          *)
(***************************************************************************)
retry_attempts == 3

\* What one attempt of session.request can end in: a transport exception
\* (requests.RequestException) or a response carrying a status code.
BackendStatuses == {200, 204, 304, 400, 404, 429, 499, 500, 503}

TransportError == [exc |-> TRUE, status |-> 0]

Response(s) == [exc |-> FALSE, status |-> s]

Outcomes == {TransportError} \cup {Response(s) : s \in BackendStatuses}

\* Line 48 misread as "any 5xx is retried, 429 is not".
ShouldReturn_No429(o) == (~o.exc) /\ o.status < 500

\* Line 48 misread as "every error status is retried".
ShouldReturn_Retry4xx(o) == (~o.exc) /\ o.status < 400

\* if resp is not None and resp.status_code < 500 and resp.status_code != 429
ShouldReturn(o) == (~o.exc) /\ o.status < 500 /\ o.status # 429

\* The caller's check written as "server errors only".
\* The check on the response left out.
CallerRaises_Never(status) == FALSE

CallerRaises_Only5xx(status) == status >= 500

\* if resp.status_code >= 400: raise RuntimeError(...)
CallerRaises(status) == status >= 400

\* _request_with_retry after the attempt that appended the last element of
\* responses: "return" the response, "raise" RuntimeError, or "retry".
RequestWithRetry(responses) ==
  LET attempt == Len(responses)
      o == responses[attempt]
  IN  IF ShouldReturn(o) THEN "return"
      ELSE IF attempt < retry_attempts THEN "retry"
      ELSE IF o.exc THEN "raise"
      ELSE "return"

\* State of an operation after an attempt: the retry loop, then the check
\* every operation makes on the response it got back.
OpStateAfter(responses) ==
  LET decision == RequestWithRetry(responses)
  IN  IF decision = "retry" THEN "sending"
      ELSE IF decision = "raise" THEN "raised"
      ELSE IF CallerRaises(responses[Len(responses)].status) THEN "raised"
      ELSE "returned"

OpKinds == {"rpc", "select_one", "upsert", "insert", "delete_where"}

RpcNames == {"claim_next_crawl_job", "mark_crawl_job_done", "mark_crawl_job_failed",
             "mark_crawl_job_invalid", "update_keyword_feedback",
             "promote_recipe_if_recent"}

StagingTables == {"stg_recipes", "stg_recipe_keywords", "stg_recipe_ingredients",
                  "stg_recipe_steps", "stg_recipe_comments"}

NoOp == [kind |-> "none", target |-> "none", state |-> "idle", responses |-> <<>>]

\* An operation that is about to send its first request.
StartOp(kind, target) ==
  [kind |-> kind, target |-> target, state |-> "sending", responses |-> <<>>]

\* insert(): "if not rows: return" before any request is built.
StartInsert(table, rowsEmpty) ==
  IF rowsEmpty
    THEN [kind |-> "insert", target |-> table, state |-> "returned", responses |-> <<>>]
    ELSE StartOp("insert", table)

OpEnded(o) == o.state \in {"returned", "raised"}

(***************************************************************************)
(* Detail Worker: jobs, requested URLs and the validation of a claimed job *)
(***************************************************************************)
\* Python's None where an id is expected.
NoneId == 0

\* A requested_url value.  kind: "none" (null or absent), "nonstr" (a JSON
\* value that is not a string) or "str".  A string is pad + body, where pad
\* is surrounding whitespace ("none", "lead", "trail") and body is
\*   "empty"   the empty string
\*   "canon"   https://cookpad.com/vn/cong-thuc/<id>
\*   "suffix"  the canonical form followed by /, ? or # and more text
\*   "other"   any other text (a relative path, another site)
NoUrl == [kind |-> "none", pad |-> "none", body |-> "empty", id |-> NoneId]

NonStrUrl == [kind |-> "nonstr", pad |-> "none", body |-> "empty", id |-> NoneId]

StrUrls ==
  [kind : {"str"}, pad : {"none", "lead", "trail"}, body : {"empty"}, id : {NoneId}]
  \cup [kind : {"str"}, pad : {"none", "lead", "trail"}, body : {"canon", "suffix"},
        id : RecipeIds]
  \cup [kind : {"str"}, pad : {"none", "lead", "trail"}, body : {"other"}, id : {NoneId}]

Urls == {NoUrl, NonStrUrl} \cup StrUrls

\* str.strip()
Strip(u) == [u EXCEPT !.pad = "none"]

\* RE_RECIPE_URL = ^https://cookpad\.com/vn/cong-thuc/(\d+)$ applied with
\* match(): the whole text must be the canonical form.
RE_RECIPE_URL_match(u) == u.kind = "str" /\ u.pad = "none" /\ u.body = "canon"

\* not isinstance(url, str) or not url.strip()
IsMissingUrl(u) == u.kind # "str" \/ Strip(u).body = "empty"

\* _job_recipe_id_from_url: the id the URL parses to, NoneId when it does not
\* parse.
JobRecipeIdFromUrl(u) ==
  IF IsMissingUrl(u) THEN NoneId
  ELSE IF ~RE_RECIPE_URL_match(Strip(u)) THEN NoneId
  ELSE Strip(u).id

\* A job row as the backend returns it.  id = NoneId is the NULL composite.
NoJob == [id |-> NoneId, recipe_id |-> NoneId, requested_url |-> NoUrl]

JobRows == [id : JobIds, recipe_id : RecipeIds, requested_url : Urls]

\* Body of the answer to claim_next_crawl_job: empty text, the text "null",
\* a JSON list of rows or a single JSON object.
ClaimBodies ==
  {[shape |-> "empty", rows |-> <<>>], [shape |-> "null", rows |-> <<>>],
   [shape |-> "list", rows |-> <<>>]}
  \cup {[shape |-> sh, rows |-> <<r>>] : sh \in {"list", "obj"}, r \in JobRows \cup {NoJob}}

\* rpc(): "if not resp.text or resp.text.strip() in ('null', ''): return None",
\* then main(): a list is replaced by its first element or None.  The result
\* is the sequence holding the job object, empty for None.
ClaimedObject(body) ==
  IF body.shape \in {"empty", "null"} THEN <<>>
  ELSE IF body.shape = "list" THEN (IF Len(body.rows) > 0 THEN <<body.rows[1]>> ELSE <<>>)
  ELSE body.rows

\* "if not job" and "if isinstance(job, dict) and not job.get('id')"
\* Only an absent result taken for idle.
IsIdleClaim_AbsentOnly(body) == Len(ClaimedObject(body)) = 0

IsIdleClaim(body) ==
  LET j == ClaimedObject(body)
  IN  IF Len(j) = 0 THEN TRUE ELSE j[1].id = NoneId

(***************************************************************************)
(* Detail Worker: terminal reports and the outcome of the page fetch       *)
(***************************************************************************)
\* Arguments of a terminal report.  reason is the reason code; exc_kind is
\* the exception name after "request_error:" or "staging_write:";
\* reason_status is the number after "http_"; http_status is p_http_status
\* (NoneId for None).
Mark(kind, reason, exc_kind, reason_status, http_status) ==
  [kind |-> kind, reason |-> reason, exc_kind |-> exc_kind,
   reason_status |-> reason_status, http_status |-> http_status]

NoMark == Mark("none", "", "", 0, NoneId)

Proceed == Mark("proceed", "", "", 0, NoneId)

PageStatuses == {200, 204, 301, 302, 307, 400, 403, 404, 410, 429, 499, 500, 503}

RequestExceptions == {"ConnectionError", "Timeout"}

\* Outcome of session.get(requested_url, allow_redirects=False): a
\* RequestException of some kind, or a response with a status and a final
\* URL that is or is not the requested string.
NoResp == [exc |-> FALSE, exc_kind |-> "", status |-> 0, url_same |-> TRUE]

FetchOutcomes(u) ==
  {[exc |-> TRUE, exc_kind |-> k, status |-> 0, url_same |-> TRUE] : k \in RequestExceptions}
  \cup {[exc |-> FALSE, exc_kind |-> "", status |-> s, url_same |-> same] :
          s \in PageStatuses,
          same \in (IF u.pad = "none" THEN {TRUE, FALSE} ELSE {FALSE})}

\* The 404/410 test placed before the URL comparison.
FetchClassification_NotFoundFirst(r) ==
  IF r.exc THEN Mark("failed", "request_error", r.exc_kind, 0, NoneId)
  ELSE IF r.status \in {301, 302} THEN Mark("invalid", "redirect", "", 0, r.status)
  ELSE IF r.status \in {404, 410} THEN Mark("invalid", "notfound", "", 0, r.status)
  ELSE IF ~r.url_same THEN Mark("invalid", "url_mismatch", "", 0, r.status)
  ELSE IF r.status = 429 \/ r.status >= 500
    THEN Mark("failed", "http", "", r.status, r.status)
  ELSE IF r.status # 200 THEN Mark("failed", "http", "", r.status, r.status)
  ELSE Proceed

\* 404/410 reported through the catch-all branch.
FetchClassification_NotFoundFails(r) ==
  IF r.exc THEN Mark("failed", "request_error", r.exc_kind, 0, NoneId)
  ELSE IF r.status \in {301, 302} THEN Mark("invalid", "redirect", "", 0, r.status)
  ELSE IF ~r.url_same THEN Mark("invalid", "url_mismatch", "", 0, r.status)
  ELSE IF r.status # 200 THEN Mark("failed", "http", "", r.status, r.status)
  ELSE Proceed

\* main(), from the try around session.get to the last status test: the
\* report the outcome leads to, or Proceed.
FetchClassification(r) ==
  IF r.exc THEN Mark("failed", "request_error", r.exc_kind, 0, NoneId)
  ELSE IF r.status \in {301, 302} THEN Mark("invalid", "redirect", "", 0, r.status)
  ELSE IF ~r.url_same THEN Mark("invalid", "url_mismatch", "", 0, r.status)
  ELSE IF r.status \in {404, 410} THEN Mark("invalid", "notfound", "", 0, r.status)
  ELSE IF r.status = 429 \/ r.status >= 500
    THEN Mark("failed", "http", "", r.status, r.status)
  ELSE IF r.status # 200 THEN Mark("failed", "http", "", r.status, r.status)
  ELSE Proceed

\* "only status 200 with matching URL proceeds": none of the tests before
\* the parse matched.
FetchOk(r) == FetchClassification(r) = Proceed

\* Result of parse_jsonld_recipe as far as the worker looks at it: absent,
\* or a record whose date_published is absent (NoDate) or a date; raised
\* when the call ended with an exception instead.
NoDate == 0 - 1

NoParse == [present |-> FALSE, raised |-> FALSE, date_published |-> NoDate]

ParseRaised == [present |-> FALSE, raised |-> TRUE, date_published |-> NoDate]

ParseResults ==
  {NoParse}
  \cup {[present |-> TRUE, raised |-> FALSE, date_published |-> d] : d \in Dates \cup {NoDate}}

\* The comparison written with <=.
IsOlderThanCutoff_Inclusive(p, cutoffDate) ==
  p.date_published # NoDate /\ p.date_published <= cutoffDate

\* parsed.date_published and parsed.date_published.date() < cutoff
IsOlderThanCutoff(p, cutoffDate) ==
  p.date_published # NoDate /\ p.date_published < cutoffDate

\* The eight client calls of write_staging after the parent upsert, and the
\* parent upsert itself, in order.
StagingOps ==
  << <<"upsert", "stg_recipes">>,
     <<"delete_where", "stg_recipe_keywords">>,
     <<"delete_where", "stg_recipe_ingredients">>,
     <<"delete_where", "stg_recipe_steps">>,
     <<"delete_where", "stg_recipe_comments">>,
     <<"upsert", "stg_recipe_keywords">>,
     <<"upsert", "stg_recipe_ingredients">>,
     <<"upsert", "stg_recipe_steps">>,
     <<"upsert", "stg_recipe_comments">> >>

\* The handler reporting the job as invalid.
StagingFailureMark_Invalid(excKind) == Mark("invalid", "staging_write", excKind, 0, 200)

\* except Exception as e: mark_crawl_job_failed, "staging_write:<type name>"
StagingFailureMark(excKind) == Mark("failed", "staging_write", excKind, 0, 200)

\* The report for an absent parse result made as a failure.
NoRecipeMark_Failed == Mark("failed", "no_recipe_jsonld", "", 0, 200)

\* if not parsed: mark_crawl_job_invalid, "no_recipe_jsonld", http 200
NoRecipeMark == Mark("invalid", "no_recipe_jsonld", "", 0, 200)

\* The handler of a failed staging write without its "continue".
PcAfterReport_FallThrough(m) == IF m.reason = "staging_write" THEN "fresh" ELSE "loop"

\* Every report is followed by "continue" (or is the last statement of the
\* loop body): the worker goes back to the claim.
PcAfterReport(m) == "loop"

(***************************************************************************)
(* Harvester: seeds, listing pages, signatures and the stop conditions     *)
(***************************************************************************)
\* config.TIER_1_SEEDS and config.TIER_2_SEEDS, shortened.
TIER_1_SEEDS == <<"k1", "k2">>

TIER_2_SEEDS == <<"k3">>

\* The tiers yielded in the opposite order.
SeedList_Tier2First ==
  [i \in 1..Len(TIER_2_SEEDS) |-> [tier |-> 2, keyword |-> TIER_2_SEEDS[i]]]
  \o [i \in 1..Len(TIER_1_SEEDS) |-> [tier |-> 1, keyword |-> TIER_1_SEEDS[i]]]

\* iter_seed_tiers() and the two nested loops of main(): the keywords in the
\* order main() visits them, each with its tier.
SeedList ==
  [i \in 1..Len(TIER_1_SEEDS) |-> [tier |-> 1, keyword |-> TIER_1_SEEDS[i]]]
  \o [i \in 1..Len(TIER_2_SEEDS) |-> [tier |-> 2, keyword |-> TIER_2_SEEDS[i]]]

NumSeeds == Len(SeedList)

ListingIdSet == 1..MaxListingId

\* The href of an anchor.  attr: "absent" when the anchor has no href;
\* pad: whitespace around the text; form: "empty", "rel"
\* (/vn/cong-thuc/<digits>...), "abs" (https://cookpad.com/vn/cong-thuc/
\* <digits>...) or "other"; id and zeros: the digits, with or without
\* leading zeros; suffix: what follows the digits: nothing, text beginning
\* with "/", "?" or "#", or other text ("junk").
Href(attr, pad, form, id, zeros, suffix) ==
  [attr |-> attr, pad |-> pad, form |-> form, id |-> id, zeros |-> zeros, suffix |-> suffix]

Suffixes == {"none", "slash", "query", "fragment", "junk"}

Hrefs ==
  {Href("absent", FALSE, "empty", 0, FALSE, "none"),
   Href("text", FALSE, "empty", 0, FALSE, "none"),
   Href("text", TRUE, "empty", 0, FALSE, "none"),
   Href("text", FALSE, "other", 0, FALSE, "none")}
  \cup {Href("text", FALSE, f, id, FALSE, "none") : f \in {"rel", "abs"}, id \in ListingIdSet}
  \cup {Href("text", TRUE, "rel", id, FALSE, "none") : id \in ListingIdSet}
  \cup {Href("text", FALSE, "rel", id, TRUE, "none") : id \in ListingIdSet}
  \cup {Href("text", FALSE, "abs", id, FALSE, "query") : id \in ListingIdSet}
  \cup {Href("text", FALSE, "rel", id, FALSE, "slash") : id \in ListingIdSet}
  \cup {Href("text", FALSE, "abs", id, FALSE, "fragment") : id \in ListingIdSet}
  \cup {Href("text", FALSE, "rel", id, FALSE, "junk") : id \in ListingIdSet}

\* if not href: continue
HrefSkipped(h) == h.attr = "absent" \/ (h.form = "empty" /\ ~h.pad)

\* href.strip()
StripHref(h) == [h EXCEPT !.pad = FALSE]

\* _RE_RECIPE_REL.match(href): ^/vn/cong-thuc/(\d+)(?:[/?#].*)?$
RE_RECIPE_REL_match(h) ==
  h.form = "rel" /\ ~h.pad /\ h.suffix \in {"none", "slash", "query", "fragment"}

\* _RE_RECIPE_ABS.match(href), the same after https://cookpad.com
RE_RECIPE_ABS_match(h) ==
  h.form = "abs" /\ ~h.pad /\ h.suffix \in {"none", "slash", "query", "fragment"}

\* int(m.group(1)): leading zeros do not change the number.
IntOfDigits(h) == h.id

\* The first loop: the ids of the matching hrefs, in document order.
RECURSIVE MatchedIds(_)
MatchedIds(hrefs) ==
  IF hrefs = <<>> THEN <<>>
  ELSE LET h == Head(hrefs)
       IN  IF HrefSkipped(h) THEN MatchedIds(Tail(hrefs))
           ELSE IF RE_RECIPE_REL_match(StripHref(h)) \/ RE_RECIPE_ABS_match(StripHref(h))
             THEN <<IntOfDigits(StripHref(h))>> \o MatchedIds(Tail(hrefs))
           ELSE MatchedIds(Tail(hrefs))

\* The last occurrence of each id kept.
RECURSIVE Dedupe_KeepLast(_, _)
Dedupe_KeepLast(ids, seen) ==
  IF ids = <<>> THEN <<>>
  ELSE IF \E i \in 2..Len(ids) : ids[i] = Head(ids)
    THEN Dedupe_KeepLast(Tail(ids), seen)
  ELSE <<Head(ids)>> \o Dedupe_KeepLast(Tail(ids), seen)

\* The ids returned as matched, repetitions included.
Dedupe_Off(ids, seen) == ids

\* The second loop: out.append(rid) for every rid not in seen.
RECURSIVE Dedupe(_, _)
Dedupe(ids, seen) ==
  IF ids = <<>> THEN <<>>
  ELSE IF Head(ids) \in seen THEN Dedupe(Tail(ids), seen)
  ELSE <<Head(ids)>> \o Dedupe(Tail(ids), seen \cup {Head(ids)})

extract_recipe_ids_from_listing(hrefs) == Dedupe(MatchedIds(hrefs), {})

\* The anchors of a listing page: none, one recipe link, or two recipe
\* links, to the same recipe or to different ones.
ListingAnchors ==
  {<<>>}
  \cup {<<Href("text", FALSE, "rel", a, FALSE, "none")>> : a \in ListingIdSet}
  \cup {<<Href("text", FALSE, "rel", a, FALSE, "none"),
          Href("text", FALSE, "abs", b, FALSE, "query")>> : a, b \in ListingIdSet}

\* recipe_ids = extract_recipe_ids_from_listing(html) for the pages the
\* listing server can answer with.
IdLists == {extract_recipe_ids_from_listing(hrefs) : hrefs \in ListingAnchors}

\* What a listing fetch returns: None (ok = FALSE) or the text of a 200
\* response, which may be the empty string (blank) and otherwise carries the
\* anchors that extract to ids.
NoHtml == [ok |-> FALSE, blank |-> FALSE, ids |-> <<>>]

BlankHtml == [ok |-> TRUE, blank |-> TRUE, ids |-> <<>>]

Html(ids) == [ok |-> TRUE, blank |-> FALSE, ids |-> ids]

\* One attempt of a listing fetch: httpx.RequestError, or a response with a
\* status and, when the status is 200, a text.
ListingAttempts ==
  {[exc |-> TRUE, status |-> 0, html |-> NoHtml]}
  \cup {[exc |-> FALSE, status |-> st, html |-> NoHtml] : st \in {301, 404, 429, 500, 503}}
  \cup {[exc |-> FALSE, status |-> 200, html |-> h] :
          h \in {BlankHtml} \cup {Html(ids) : ids \in IdLists}}

\* Stands for an attempt that was never made.
NoAttempt == [exc |-> TRUE, status |-> 0, html |-> NoHtml]

\* _fetch_listing_sync and _fetch_listing_async from attempt number
\* `attempt` on, outs[k] being the outcome of attempt k.
RECURSIVE FetchListingFrom(_, _)
FetchListingFrom(outs, attempt) ==
  IF attempt > 3 THEN NoHtml
  ELSE LET o == outs[attempt]
       IN  IF ~o.exc /\ o.status = 200 THEN o.html
           ELSE IF (o.exc \/ o.status = 429 \/ o.status >= 500) /\ attempt < 3
             THEN FetchListingFrom(outs, attempt + 1)
           ELSE NoHtml

FetchListing(outs) == FetchListingFrom(outs, 1)

\* Everything a listing fetch can return.
FetchResults ==
  {FetchListing(outs) : outs \in [1..3 -> ListingAttempts]}

\* ",".join(str(x) for x in ids)
RECURSIVE JoinIds(_)
JoinIds(ids) ==
  IF ids = <<>> THEN ""
  ELSE IF Len(ids) = 1 THEN ToString(ids[1])
  ELSE ToString(ids[1]) \o "," \o JoinIds(Tail(ids))

\* The digest taken over the set of ids.
signature_of_ids_Unordered(ids) == [sha256 |-> {ids[i] : i \in DOMAIN ids}]

\* signature_of_ids: the digest of the joined text, the digest taken as
\* free of collisions.
signature_of_ids(ids) == [sha256 |-> JoinIds(ids)]

\* prev_signature = None
NoSignature == [sha256 |-> "None"]

\* The test of S1 written "is None".
IsEmptyPage_IsNone(ids) == FALSE

\* if not recipe_ids / if found_count == 0   (S1)
IsEmptyPage(ids) == Len(ids) = 0

\* S3 with the comparison left out.
IsLoop_Off(prev, ids) == FALSE

\* if prev_signature is not None and sig == prev_signature   (S3)
IsLoop(prev, ids) == prev # NoSignature /\ signature_of_ids(ids) = prev

\* What the loop body does with the page it fetched, up to the enqueue:
\* "fetch_failed", "empty_page", "loop_signature" or "enqueue".
Evaluate(html, prev) ==
  IF ~html.ok \/ html.blank THEN "fetch_failed"
  ELSE IF IsEmptyPage(html.ids) THEN "empty_page"
  ELSE IF IsLoop(prev, html.ids) THEN "loop_signature"
  ELSE "enqueue"

\* The counter never reset.
NextZeroNew_NoReset(count, inserted) == IF inserted = 0 THEN count + 1 ELSE count

\* if inserted == 0: consecutive_zero_new += 1 / else: consecutive_zero_new = 0
NextZeroNew(count, inserted) == IF inserted = 0 THEN count + 1 ELSE 0

ZeroNewThreshold == 5

\* if consecutive_zero_new >= 5   (S2)
IsZeroNewStop(count) == count >= ZeroNewThreshold

\* A keyword_feedback row as select_one returns it: absent, or a row whose
\* is_stale is true, false or null.
Feedbacks == {"absent", "true", "false", "null"}

\* The stale budget applied to every keyword that has a feedback row.
PageBudget_AnyRow(feedback, configured) == IF feedback # "absent" THEN 2 ELSE configured

\* is_stale = bool(feedback and feedback.get("is_stale"))
\* max_pages = 2 if is_stale else settings.max_pages_per_keyword
PageBudget(feedback, configured) == IF feedback = "true" THEN 2 ELSE configured

\* The batch cut at page + batch_size without regard to the budget.
BatchPages_Unclipped(first, size, budget) == first..(first + size - 1)

\* batch_pages = list(range(page, min(page + batch_size, max_pages + 1)))
BatchPages(first, size, budget) ==
  first..((IF first + size < budget + 1 THEN first + size ELSE budget + 1) - 1)

\* The results of the batch taken in the order of completion, here reversed.
HtmlOf_Reversed(batch, i) == batch[Len(batch) + 1 - i]

\* for p, html in zip(batch_pages, htmls): the result of the i-th page
HtmlOf(batch, i) == batch[i]

\* A fetch failure ending the whole harvest.
AfterStop_EndsRun(k) == NumSeeds + 1

\* break / end of the page loop: the keyword loop goes on with the next seed.
AfterStop(k) == k + 1

\* Outcome of a whole client operation, rs[k] answering attempt k.
RECURSIVE OpRun(_, _)
OpRun(rs, n) ==
  LET st == OpStateAfter(SubSeq(rs, 1, n))
  IN  IF st = "sending" /\ n < Len(rs) THEN OpRun(rs, n + 1) ELSE st

\* How a call of sb.rpc or sb.select_one can end: "returned" or "raised".
CallResults == {OpRun(rs, 1) : rs \in [1..retry_attempts -> Outcomes]}

\* enqueue_crawl_jobs at the backend: the ids not yet queued are inserted,
\* the others skipped.
BackendEnqueue(q, ids) ==
  LET new == {ids[i] : i \in DOMAIN ids} \ q
  IN  [queue |-> q \cup new, inserted_count |-> Cardinality(new)]

\* inserted = int(result[0]["inserted_count"]) if result else 0, where the
\* answer is the count of this call, or 0 when the answer has no rows or
\* when an attempt whose answer was lost had already inserted the ids.
ObservedInserted(q, ids) == {BackendEnqueue(q, ids).inserted_count, 0}

NoStop == [reason |-> "none", page |-> 0]

\* The keyword ended at page p for the given reason.
Stop(reason, p) == [reason |-> reason, page |-> p]

\* No keyword has stopped yet.
NoStops == [k \in 1..NumSeeds |-> "none"]

StopReasons == {"fetch_failed", "empty_page", "loop_signature", "no_new_jobs_5_pages",
                "reached_max_pages"}

NoResult == [done |-> FALSE, queue |-> {}, stops |-> NoStops, lastStop |-> NoStop]

(***************************************************************************)
(* Texts, their normalisation and hash; the staged rows of a parsed recipe *)
(***************************************************************************)
\* A string value.  base: the words of the text, "" when it has none;
\* upper: some letter is upper case; pad: whitespace before or after the
\* words (a text of whitespace only has base "" and pad); wide: a run of
\* several whitespace characters between two words.
Txt(base, upper, pad, wide) == [base |-> base, upper |-> upper, pad |-> pad, wide |-> wide]

\* text.strip()
StripTxt(t) == [t EXCEPT !.pad = FALSE]

\* not text.strip()
IsBlankTxt(t) == t.base = ""

\* normalize_text_for_hash: " ".join((text or "").strip().split()).lower()
normalize_text_for_hash(t) == Txt(t.base, FALSE, FALSE, FALSE)

\* The hash taken of the text as it is written.
sha256_text_Raw(t) == [sha256 |-> t]

\* sha256_text: the digest of the normalised text; equal digests mean equal
\* normalised texts.
sha256_text(t) == [sha256 |-> normalize_text_for_hash(t)]

\* A member of the "comment" value of the recipe object: something that is
\* no object, an object whose text is no string, or an object with a text.
NonDictComment == [kind |-> "nondict", text |-> Txt("", FALSE, FALSE, FALSE)]

NonStrTextComment == [kind |-> "nonstr", text |-> Txt("", FALSE, FALSE, FALSE)]

TextComment(t) == [kind |-> "text", text |-> t]

\* _extract_comments: the members with a usable text, each with the trimmed
\* text and the hash of the text.
RECURSIVE extract_comments(_)
extract_comments(comments) ==
  IF comments = <<>> THEN <<>>
  ELSE LET c == Head(comments)
       IN  IF c.kind # "text" \/ IsBlankTxt(c.text)
             THEN extract_comments(Tail(comments))
             ELSE <<[text |-> StripTxt(c.text), text_hash |-> sha256_text(c.text)]>>
                  \o extract_comments(Tail(comments))

\* The parts of a ParsedRecipe that write_staging sends.
ParsedRecipe(recipe_id, name, keywords, ingredients, steps, comments) ==
  [recipe_id |-> recipe_id, name |-> name, keywords |-> keywords,
   ingredients |-> ingredients, steps |-> steps, comments |-> comments]

CommentLists ==
  { <<>>,
    <<TextComment(Txt("a", FALSE, FALSE, FALSE))>>,
    <<TextComment(Txt("a", FALSE, FALSE, FALSE)), TextComment(Txt("a", TRUE, TRUE, TRUE))>>,
    <<TextComment(Txt("a", TRUE, FALSE, FALSE)), TextComment(Txt("b", FALSE, FALSE, FALSE))>>,
    <<NonDictComment, TextComment(Txt("b", FALSE, TRUE, FALSE)),
      TextComment(Txt("", FALSE, TRUE, FALSE)), NonStrTextComment>> }

KeywordLists == {<<>>, <<"k1", "k2">>, <<"k2", "k2">>}

IngredientLists == {<<"i1">>, <<"i2", "i1">>}

StepLists == {<<>>, <<[text |-> "s1", image |-> "none"]>>}

\* What the parser can return for the page of a recipe.
ParsedRecipes(recipe_id) ==
  {ParsedRecipe(recipe_id, n, k, i, st, extract_comments(c)) :
     n \in {"n1"}, k \in KeywordLists, i \in IngredientLists, st \in StepLists,
     c \in CommentLists}

\* The rows write_staging sends to a table, in the order of the payload.
StagingRows(table, p) ==
  IF table = "stg_recipes"
    THEN <<[recipe_id |-> p.recipe_id, name |-> p.name]>>
  ELSE IF table = "stg_recipe_keywords"
    THEN [i \in DOMAIN p.keywords |-> [recipe_id |-> p.recipe_id, keyword |-> p.keywords[i]]]
  ELSE IF table = "stg_recipe_ingredients"
    THEN [i \in DOMAIN p.ingredients |->
            [recipe_id |-> p.recipe_id, ingredient_index |-> i - 1,
             ingredient_text |-> p.ingredients[i]]]
  ELSE IF table = "stg_recipe_steps"
    THEN [i \in DOMAIN p.steps |->
            [recipe_id |-> p.recipe_id, step_index |-> i - 1,
             step_text |-> p.steps[i].text, step_image |-> p.steps[i].image]]
  ELSE [i \in DOMAIN p.comments |->
            [recipe_id |-> p.recipe_id, text_hash |-> p.comments[i].text_hash,
             comment_text |-> p.comments[i].text]]

\* The on_conflict columns of a row of the table.
ConflictKey(table, row) ==
  IF table = "stg_recipes" THEN <<row.recipe_id>>
  ELSE IF table = "stg_recipe_keywords" THEN <<row.recipe_id, row.keyword>>
  ELSE IF table = "stg_recipe_ingredients" THEN <<row.recipe_id, row.ingredient_index>>
  ELSE IF table = "stg_recipe_steps" THEN <<row.recipe_id, row.step_index>>
  ELSE <<row.recipe_id, row.text_hash>>

\* The backend applying an upsert: every row of the payload, in order, is
\* inserted or replaces the row holding its conflict key.
RECURSIVE BackendUpsert(_, _, _)
BackendUpsert(table, rows, new) ==
  IF new = <<>> THEN rows
  ELSE BackendUpsert(table,
         {r \in rows : ConflictKey(table, r) # ConflictKey(table, Head(new))}
           \cup {Head(new)},
         Tail(new))

\* A delete that removes nothing.
BackendDelete_Nothing(rows, recipe_id) == rows

\* The backend applying DELETE ...?recipe_id=eq.<recipe_id>
BackendDelete(rows, recipe_id) == {r \in rows : r.recipe_id # recipe_id}

\* The table after a call of write_staging has been applied.
StagingApply(kind, table, rows, p) ==
  IF kind = "upsert" THEN BackendUpsert(table, rows, StagingRows(table, p))
  ELSE BackendDelete(rows, p.recipe_id)

NoParsedRecipe == ParsedRecipe(NoneId, "", <<>>, <<>>, <<>>, <<>>)

EmptyTables == [t \in StagingTables |-> {}]

NoStaging ==
  [phase |-> "off", parsed |-> NoParsedRecipe, pos |-> 0, state |-> "off",
   tables |-> EmptyTables, earlier |-> "none", before |-> EmptyTables]

(***************************************************************************)
(* _extract_keywords                                                       *)
(***************************************************************************)
\* A string is the sequence of its characters: letters, the blank and the
\* two separators.
Alphabet == {"a", "b", " ", ",", ";"}

Strings == UNION {[1..n -> Alphabet] : n \in 0..MaxChars}

\* s.strip(): the blanks before the first and after the last other character
\* removed.
RECURSIVE LStrip(_)
LStrip(s) == IF s # <<>> /\ Head(s) = " " THEN LStrip(Tail(s)) ELSE s

RECURSIVE RStrip(_)
RStrip(s) ==
  IF s # <<>> /\ s[Len(s)] = " " THEN RStrip(SubSeq(s, 1, Len(s) - 1)) ELSE s

StripStr(s) == RStrip(LStrip(s))

\* s.replace(";", ",")
ReplaceSemicolon(s) == [i \in DOMAIN s |-> IF s[i] = ";" THEN "," ELSE s[i]]

\* s.split(","): the pieces between the commas, empty pieces included.
RECURSIVE SplitComma(_, _)
SplitComma(s, piece) ==
  IF s = <<>> THEN <<piece>>
  ELSE IF Head(s) = "," THEN <<piece>> \o SplitComma(Tail(s), <<>>)
  ELSE SplitComma(Tail(s), Append(piece, Head(s)))

\* Python's None where a string is expected, and a string that is there.
NoneStr == [none |-> TRUE, chars |-> <<>>]

Str(s) == [none |-> FALSE, chars |-> s]

\* raw or None
OrNone(s) == IF s = <<>> THEN NoneStr ELSE Str(s)

\* ", ".join(cleaned)
RECURSIVE JoinCommaBlank(_)
JoinCommaBlank(ss) ==
  IF ss = <<>> THEN <<>>
  ELSE IF Len(ss) = 1 THEN Head(ss)
  ELSE Head(ss) \o <<",", " ">> \o JoinCommaBlank(Tail(ss))

\* The "keywords" value of the recipe object: absent (None), a list whose
\* members are strings or something else, a string, or another value.
KeywordsValue(kind, chars, items) == [kind |-> kind, chars |-> chars, items |-> items]

ListItems ==
  {[str |-> FALSE, chars |-> <<>>]}
  \cup {[str |-> TRUE, chars |-> c] : c \in {<<>>, <<" ">>, <<"a">>, <<" ", "b">>, <<"a", ",">>}}

KeywordsValues ==
  {KeywordsValue("none", <<>>, <<>>), KeywordsValue("other", <<>>, <<>>)}
  \cup {KeywordsValue("str", c, <<>>) : c \in Strings}
  \cup {KeywordsValue("list", <<>>, <<>>)}
  \cup {KeywordsValue("list", <<>>, <<i>>) : i \in ListItems}
  \cup {KeywordsValue("list", <<>>, <<i, j>>) : i, j \in ListItems}

\* raw = keywords.strip()
KeywordsRaw(chars) == StripStr(chars)

\* p.strip() for p in raw.replace(";", ",").split(",")
TrimPiece(piece) == StripStr(piece)

\* _extract_keywords: (keywords_raw, keywords)
extract_keywords(v) ==
  IF v.kind = "none" THEN [raw |-> NoneStr, parts |-> <<>>]
  ELSE IF v.kind = "list"
    THEN LET strs == SelectSeq(v.items, LAMBDA k : k.str /\ StripStr(k.chars) # <<>>)
             cleaned == [i \in DOMAIN strs |-> StripStr(strs[i].chars)]
         IN  [raw |-> OrNone(JoinCommaBlank(cleaned)), parts |-> cleaned]
  ELSE IF v.kind = "str"
    THEN LET raw == KeywordsRaw(v.chars)
             pieces == SplitComma(ReplaceSemicolon(raw), <<>>)
             parts == [i \in DOMAIN pieces |-> TrimPiece(pieces[i])]
         IN  [raw |-> OrNone(raw), parts |-> SelectSeq(parts, LAMBDA q : q # <<>>)]
  ELSE [raw |-> NoneStr, parts |-> <<>>]

NoKeywords ==
  [value |-> KeywordsValue("none", <<>>, <<>>), state |-> "off",
   raw |-> NoneStr, parts |-> <<>>]

(***************************************************************************)
(* parse_jsonld_recipe: linked-data blocks, candidates and counts          *)
(***************************************************************************)
\* The "@type" of an object: absent, the string "Recipe", another string, a
\* list containing "Recipe", a list without it, or a value that is neither
\* a string nor a list.
TypeTags == {"absent", "Recipe", "Other", "list_with", "list_without", "nonstring"}

\* t == "Recipe" or (isinstance(t, list) and "Recipe" in t)
IsRecipeType(t) == t = "Recipe" \/ t = "list_with"

\* A value of userInteractionCount.  kind: "none" (absent or null), "int",
\* "numstr" (a string of digits), "float" (finite), "bool", "nan", "inf"
\* (Infinity, or a number too large for a float such as 1e999), "text" (a
\* string that is no number), "dict".  n: the integer the value stands for.
CountValue(kind, n) == [kind |-> kind, n |-> n]

\* int(count) if count is not None else None, inside
\* try ... except (ValueError, TypeError): count_int = None.
\* The result: the exception that leaves the try statement ("" for none) and
\* count_int as a sequence, empty for None.
IntOfCount(c) ==
  IF c.kind \in {"int", "numstr", "float", "bool"} THEN [exc |-> "", val |-> <<c.n>>]
  ELSE IF c.kind = "inf" THEN [exc |-> "OverflowError", val |-> <<>>]
  ELSE [exc |-> "", val |-> <<>>]

\* A value found under interactionType, "@type" or "name".  kind: "absent",
\* "str" (tag is the string), "num" (a number, tag "0" for zero), "list" (a
\* list holding the string tag).
TagValue(kind, tag) == [kind |-> kind, tag |-> tag]

AbsentTag == TagValue("absent", "")

\* The truth value Python gives the value.
Truthy(v) ==
  \/ v.kind = "str" /\ v.tag # ""
  \/ v.kind = "num" /\ v.tag # "0"
  \/ v.kind = "list"

\* interactionType: a string, an object with "@type" and "name", or
\* something else.
InteractionType(kind, str, type, name) ==
  [kind |-> kind, str |-> str, type |-> type, name |-> name]

\* it_str: it.get("@type") or it.get("name") for an object, the string for a
\* string, None otherwise.
ItStr(it) ==
  IF it.kind = "dict" THEN (IF Truthy(it.type) THEN it.type ELSE it.name)
  ELSE IF it.kind = "str" THEN it.str
  ELSE AbsentTag

\* needle in it_str: substring of a string, member of a list, TypeError for
\* a number.
ContainsAction(needle, v) ==
  IF v.kind = "str"
    THEN [exc |-> "", val |-> v.tag \in {needle, "https://schema.org/" \o needle}]
  ELSE IF v.kind = "list" THEN [exc |-> "", val |-> v.tag = needle]
  ELSE [exc |-> "TypeError", val |-> FALSE]

\* A member of interactionStatistic.
Stat(dict, it, count) == [dict |-> dict, it |-> it, count |-> count]

NoCounts == [exc |-> "", bookmark |-> <<>>, like |-> <<>>, comment |-> <<>>]

\* _extract_counts: the loop over the members, from the counts found so far.
RECURSIVE extract_counts(_, _)
extract_counts(stats, acc) ==
  IF stats = <<>> THEN acc
  ELSE LET stat == Head(stats)
           count == IntOfCount(stat.count)
           it_str == ItStr(stat.it)
           isB == ContainsAction("BookmarkAction", it_str)
           isL == ContainsAction("LikeAction", it_str)
           isC == ContainsAction("CommentAction", it_str)
       IN  IF ~stat.dict THEN extract_counts(Tail(stats), acc)
           ELSE IF count.exc # "" THEN [acc EXCEPT !.exc = count.exc]
           ELSE IF ~Truthy(it_str) \/ count.val = <<>>
             THEN extract_counts(Tail(stats), acc)
           ELSE IF isB.exc # "" THEN [acc EXCEPT !.exc = isB.exc]
           ELSE IF isB.val
             THEN extract_counts(Tail(stats), [acc EXCEPT !.bookmark = count.val])
           ELSE IF isL.val
             THEN extract_counts(Tail(stats), [acc EXCEPT !.like = count.val])
           ELSE IF isC.val
             THEN extract_counts(Tail(stats), [acc EXCEPT !.comment = count.val])
           ELSE extract_counts(Tail(stats), acc)

StrType(tag) == InteractionType("str", TagValue("str", tag), AbsentTag, AbsentTag)

DictType(type, name) == InteractionType("dict", AbsentTag, type, name)

\* The interactionStatistic values of the pages considered.
StatLists ==
  { <<>>,
    <<Stat(FALSE, StrType("LikeAction"), CountValue("int", 1))>>,
    <<Stat(TRUE, StrType("https://schema.org/LikeAction"), CountValue("int", 2)),
      Stat(TRUE, DictType(TagValue("str", "BookmarkAction"), AbsentTag), CountValue("numstr", 1))>>,
    <<Stat(TRUE, DictType(AbsentTag, TagValue("str", "CommentAction")), CountValue("float", 2))>>,
    <<Stat(TRUE, DictType(TagValue("list", "LikeAction"), AbsentTag), CountValue("bool", 1))>>,
    <<Stat(TRUE, StrType("LikeAction"), CountValue("nan", 0))>>,
    <<Stat(TRUE, StrType("LikeAction"), CountValue("text", 0))>>,
    <<Stat(TRUE, StrType("ViewAction"), CountValue("dict", 0)),
      Stat(TRUE, StrType("CommentAction"), CountValue("int", 1))>>,
    <<Stat(TRUE, StrType("LikeAction"), CountValue("inf", 0))>>,
    <<Stat(TRUE, InteractionType("other", AbsentTag, AbsentTag, AbsentTag), CountValue("inf", 0))>>,
    <<Stat(TRUE, DictType(TagValue("num", "5"), AbsentTag), CountValue("int", 1))>>,
    <<Stat(TRUE, DictType(TagValue("num", "5"), AbsentTag), CountValue("none", 0))>>,
    <<Stat(TRUE, DictType(TagValue("num", "0"), TagValue("str", "LikeAction")), CountValue("int", 2))>> }

\* A value in a block: an object with its "@type", "name",
\* "@graph" and "interactionStatistic", or something that is no object.
\* The name of an object is its place in the page, so that no two objects of
\* a page carry the same name.  "@graph" is absent, no list, or a list.
Graph(kind, members) == [kind |-> kind, members |-> members]

NoGraph == Graph("absent", <<>>)

Object(type, name, graph, stat) ==
  [kind |-> "object", type |-> type, name |-> name, graph |-> graph, stat |-> stat]

NonObject == [kind |-> "other", type |-> "absent", name |-> <<>>, graph |-> NoGraph, stat |-> <<>>]

GraphMembers == {NonObject, Object("Recipe", <<>>, NoGraph, <<>>), Object("Other", <<>>, NoGraph, <<>>)}

Graphs ==
  {NoGraph, Graph("nonlist", <<>>)}
  \cup {Graph("list", m) : m \in UNION {[1..n -> GraphMembers] : n \in 0..MaxGraph}}

TopObjects == {Object(t, <<>>, g, <<>>) : t \in TypeTags, g \in Graphs}

ArrayMembers ==
  {NonObject, Object("list_with", <<>>, NoGraph, <<>>),
   Object("Other", <<>>, Graph("list", <<Object("Recipe", <<>>, NoGraph, <<>>)>>), <<>>)}

\* The text of a script element: blank, no JSON, JSON null, a JSON value
\* that is neither object nor array, one object, or an array.
Block(kind, items) == [kind |-> kind, items |-> items]

Blocks ==
  {Block(k, <<>>) : k \in {"blank", "malformed", "null", "scalar"}}
  \cup {Block("object", <<o>>) : o \in TopObjects}
  \cup {Block("array", <<>>)}
  \cup {Block("array", <<a>>) : a \in ArrayMembers}
  \cup {Block("array", <<a, b>>) : a, b \in ArrayMembers}

\* The blocks considered after the first one of a page.
SecondBlocks ==
  {b \in Blocks : b.kind = "object" => b.items[1].graph.kind # "list"}

\* The objects of a page named by their place, every object carrying the
\* page's interactionStatistic.
PlaceValue(v, place, stat) ==
  IF v.kind # "object" THEN v
  ELSE [v EXCEPT
          !.name = place,
          !.stat = stat,
          !.graph = [v.graph EXCEPT
                       !.members = [k \in DOMAIN v.graph.members |->
                                      IF v.graph.members[k].kind # "object"
                                        THEN v.graph.members[k]
                                        ELSE [v.graph.members[k] EXCEPT
                                                !.name = Append(place, k),
                                                !.stat = stat]]]]

Page(blocks, stat) ==
  [i \in DOMAIN blocks |->
     [blocks[i] EXCEPT
        !.items = [j \in DOMAIN blocks[i].items |->
                     PlaceValue(blocks[i].items[j], <<i, j>>, stat)]]]

Pages ==
  {Page(b, st) : b \in {<<>>} \cup {<<x>> : x \in Blocks}
                       \cup {<<x, y>> : x \in Blocks, y \in SecondBlocks},
                 st \in StatLists}

\* for obj in _as_list(parsed): the values of a block that json.loads
\* accepted; a blank or malformed block is skipped.
ValuesOfBlock(b) == IF b.kind \in {"object", "array"} THEN b.items ELSE <<>>

\* if isinstance(obj, dict): the members of obj["@graph"] that are objects,
\* when it is a list, and then obj itself.
CandidatesOfValue(v) ==
  IF v.kind # "object" THEN <<>>
  ELSE (IF v.graph.kind = "list"
          THEN SelectSeq(v.graph.members, LAMBDA g : g.kind = "object")
          ELSE <<>>) \o <<v>>

RECURSIVE CandidatesOfValues(_)
CandidatesOfValues(vs) ==
  IF vs = <<>> THEN <<>>
  ELSE CandidatesOfValue(Head(vs)) \o CandidatesOfValues(Tail(vs))

RECURSIVE Candidates(_)
Candidates(blocks) ==
  IF blocks = <<>> THEN <<>>
  ELSE CandidatesOfValues(ValuesOfBlock(Head(blocks))) \o Candidates(Tail(blocks))

\* What a call of parse_jsonld_recipe ends with: None, a ParsedRecipe (its
\* name and counts here), or an exception.
AbsentResult ==
  [kind |-> "absent", exc |-> "", name |-> <<>>, bookmark_count |-> <<>>,
   like_count |-> <<>>, comment_count |-> <<>>]

RaisedResult(exc) == [AbsentResult EXCEPT !.kind = "raised", !.exc = exc]

RecordResult(name, counts) ==
  [kind |-> "record", exc |-> "", name |-> name, bookmark_count |-> counts.bookmark,
   like_count |-> counts.like, comment_count |-> counts.comment]

parse_jsonld_recipe(blocks) ==
  LET recipes == SelectSeq(Candidates(blocks), LAMBDA o : IsRecipeType(o.type))
  IN  IF recipes = <<>> THEN AbsentResult
      ELSE LET recipe_obj == Head(recipes)
               counts == extract_counts(recipe_obj.stat, NoCounts)
           IN  IF counts.exc # "" THEN RaisedResult(counts.exc)
               ELSE RecordResult(recipe_obj.name, counts)

NoDoc == [blocks |-> <<>>, state |-> "off", result |-> AbsentResult]

(***************************************************************************)
(* State                                                                   *)
(***************************************************************************)
VARIABLES
  pc,            \* position of the worker in main()'s loop
  job,           \* the job claimed in this iteration, NoJob when idle
  op,            \* the client operation in progress or just ended
  resp,          \* outcome of the page fetch of this iteration
  parsed,        \* result of parse_jsonld_recipe in this iteration
  step,          \* index in StagingOps of the staging call in progress
  mark,          \* arguments of the terminal report issued for this claim
  issued,        \* calls issued since the last claim, per call name
  stagingFailed, \* a call of write_staging raised in this iteration
  cutoff         \* settings.cutoff_date, read once before the loop

workerVars == <<pc, job, op, resp, parsed, step, mark, issued, stagingFailed, cutoff>>

VARIABLES
  dest,          \* a destination table at the backend and the writes applied to it
  payload        \* the rows of the upsert in progress

destVars == <<dest, payload>>

\* The harvester (harvest.py).
\*   hpc: "off", "call" (_harvest_keyword_async about to be called),
\*        "keyword" (top of the keyword loop), "page" (top of the
\*        sequential page loop), "batch" (top of the while loop of
\*        _harvest_keyword_async), "apply" (inside its for loop),
\*        "returned" (_harvest_keyword_async returned), "finished", "crashed"
\*   entry: what runs: "sync" (main without --async), "async" (main with
\*        --async) or "keyword_async" (a call of _harvest_keyword_async)
\*   kw: index in SeedList of the current keyword
\*   configured: settings.max_pages_per_keyword
\*   batch: htmls of the current batch; bi: position in the batch
\*   queue: crawl_jobs at the backend; queue0: its contents before the run
\*   stops: the stop condition every keyword ended with
\*   lastStop: how and at which page the current keyword stopped
\*   feedback: the keyword_feedback row last read
\*   lastEnq: last page of the current keyword sent to enqueue_crawl_jobs
\*   applied: pages of the current keyword evaluated so far
\*   last: the page of the current keyword evaluated last
\*   insLog: inserted counts of the current keyword's enqueued pages
\*   order: keywords in the order their processing began
\*   seqResult: queue and stops at the end of a finished sequential run
VARIABLES
  hpc, entry, kw, configured, max_pages, batch_size, page,
  consecutive_zero_new, prev_signature, batch, bi,
  queue, queue0, stops, feedback,
  lastStop, lastEnq, applied, last, insLog, order, seqResult

keywordVars ==
  <<max_pages, page, consecutive_zero_new, prev_signature, feedback,
    lastStop, lastEnq, applied, last, insLog>>

harvestVars ==
  <<hpc, entry, kw, configured, batch_size, batch, bi, queue, queue0, stops,
    order, seqResult, keywordVars>>

\* Units checked on their own.
\*   listing: one call of _fetch_listing_sync / _fetch_listing_async: the
\*            outcomes of its attempts so far, whether it has returned, and
\*            what it returned
\*   sig: signature_of_ids applied to a list of ids and to a rearrangement
\*        of it
\*   extract: extract_recipe_ids_from_listing applied to the anchors of a
\*        document
\*   stg:     the staging tables and write_staging in progress on them
\*   kwd:     _extract_keywords applied to a "keywords" value
\*   doc:     parse_jsonld_recipe applied to the linked-data blocks of a page
VARIABLES listing, sig, extract, stg, kwd, doc

auxVars == <<listing, sig, extract, stg, kwd, doc>>

\* What the Detail Worker and the client on its own leave untouched.
otherVars == <<destVars, harvestVars, auxVars>>

vars == <<workerVars, destVars, harvestVars, auxVars>>

NoDest == [rows |-> <<>>, applied |-> 0]

\* Before the first keyword, and for a program that never harvests.
KeywordInit ==
  /\ max_pages = 0
  /\ page = 0
  /\ consecutive_zero_new = 0
  /\ prev_signature = NoSignature
  /\ feedback = "absent"
  /\ lastStop = NoStop
  /\ lastEnq = 0
  /\ applied = 0
  /\ last = NoHtml
  /\ insLog = <<>>

HarvestOff ==
  /\ hpc = "off"
  /\ entry = "sync"
  /\ kw = 0
  /\ configured = 0
  /\ batch_size = 0
  /\ batch = <<>>
  /\ bi = 0
  /\ queue = {}
  /\ queue0 = {}
  /\ stops = NoStops
  /\ order = <<>>
  /\ seqResult = NoResult
  /\ KeywordInit

DestOff ==
  /\ dest = NoDest
  /\ payload = <<>>

NoListing == [outs |-> <<>>, state |-> "off", html |-> NoHtml]

ListingOff == listing = NoListing

NoSig == [ids |-> <<>>, perm |-> <<>>, state |-> "off",
          original |-> NoSignature, permuted |-> NoSignature]

SigOff == sig = NoSig

NoExtract == [hrefs |-> <<>>, state |-> "off", out |-> <<>>]

ExtractOff == extract = NoExtract

StagingOff == stg = NoStaging

KeywordsOff == kwd = NoKeywords

ParserOff == doc = NoDoc

AuxOff ==
  ListingOff /\ SigOff /\ ExtractOff /\ StagingOff /\ KeywordsOff /\ ParserOff

OtherInit == DestOff /\ HarvestOff /\ AuxOff

CallNames == RpcNames \cup {"fetch", "write_staging"}

NoCalls == [c \in CallNames |-> 0]

TerminalRpcs == {"mark_crawl_job_done", "mark_crawl_job_failed", "mark_crawl_job_invalid"}

Reports == issued["mark_crawl_job_done"] + issued["mark_crawl_job_failed"]
           + issued["mark_crawl_job_invalid"]

Count(c) == [issued EXCEPT ![c] = @ + 1]

MarkRpc(m) ==
  IF m.kind = "done" THEN "mark_crawl_job_done"
  ELSE IF m.kind = "failed" THEN "mark_crawl_job_failed"
  ELSE "mark_crawl_job_invalid"

\* sb.rpc("mark_crawl_job_<kind>", ...) is called with the arguments m.
Report(m) ==
  /\ mark' = m
  /\ issued' = Count(MarkRpc(m))
  /\ op' = StartOp("rpc", MarkRpc(m))
  /\ pc' = "mark"

\* The worker's variables in a program that is not the Detail Worker.
WorkerOff(p) ==
  /\ pc = p
  /\ job = NoJob
  /\ op = NoOp
  /\ resp = NoResp
  /\ parsed = NoParse
  /\ step = 0
  /\ mark = NoMark
  /\ issued = NoCalls
  /\ stagingFailed = FALSE
  /\ cutoff = 0

Init ==
  /\ pc = "loop"
  /\ job = NoJob
  /\ op = NoOp
  /\ resp = NoResp
  /\ parsed = NoParse
  /\ step = 0
  /\ mark = NoMark
  /\ issued = NoCalls
  /\ stagingFailed = FALSE
  /\ cutoff \in Dates
  /\ OtherInit

(***************************************************************************)
(* SupabaseRest: one attempt of the operation in progress                  *)
(***************************************************************************)
\* One pass of the loop of _request_with_retry: the request is sent, its
\* outcome decides between return, retry and raise, and on return the
\* operation checks the status.
ClientAttempt ==
  /\ op.state = "sending"
  /\ \E o \in Outcomes :
       LET rs == Append(op.responses, o)
       IN  op' = [op EXCEPT !.responses = rs, !.state = OpStateAfter(rs)]
  /\ UNCHANGED <<pc, job, resp, parsed, step, mark, issued, stagingFailed, cutoff>>
  /\ UNCHANGED otherVars

(***************************************************************************)
(* Detail Worker: main()                                                   *)
(***************************************************************************)
\* Top of the loop: sb.rpc("claim_next_crawl_job", ...).
Claim ==
  /\ pc = "loop"
  /\ pc' = "claim"
  /\ op' = StartOp("rpc", "claim_next_crawl_job")
  /\ job' = NoJob
  /\ resp' = NoResp
  /\ parsed' = NoParse
  /\ step' = 0
  /\ mark' = NoMark
  /\ stagingFailed' = FALSE
  /\ issued' = [NoCalls EXCEPT !["claim_next_crawl_job"] = 1]
  /\ UNCHANGED cutoff
  /\ UNCHANGED otherVars

\* The claim returned nothing to work on: sleep and claim again.
ClaimIdle ==
  /\ pc = "claim" /\ op.state = "returned"
  /\ \E body \in ClaimBodies :
       /\ IsIdleClaim(body)
       /\ pc' = "loop"
  /\ UNCHANGED <<job, op, resp, parsed, step, mark, issued, stagingFailed, cutoff>>
  /\ UNCHANGED otherVars

\* The claim returned a job.
ClaimJob ==
  /\ pc = "claim" /\ op.state = "returned"
  /\ \E body \in ClaimBodies :
       /\ ~IsIdleClaim(body)
       /\ job' = ClaimedObject(body)[1]
       /\ pc' = "validate"
  /\ UNCHANGED <<op, resp, parsed, step, mark, issued, stagingFailed, cutoff>>
  /\ UNCHANGED otherVars

\* requested_url is not a string or is blank.
InvalidMissingUrl ==
  /\ pc = "validate"
  /\ IsMissingUrl(job.requested_url)
  /\ Report(Mark("invalid", "missing_requested_url", "", 0, NoneId))
  /\ UNCHANGED <<job, resp, parsed, step, stagingFailed, cutoff>>
  /\ UNCHANGED otherVars

\* requested_url does not parse, or parses to another id than the job's.
InvalidBadUrl ==
  /\ pc = "validate"
  /\ ~IsMissingUrl(job.requested_url)
  /\ LET recipe_id == JobRecipeIdFromUrl(job.requested_url)
     IN  recipe_id = NoneId \/ job.recipe_id # recipe_id
  /\ Report(Mark("invalid", "bad_requested_url", "", 0, NoneId))
  /\ UNCHANGED <<job, resp, parsed, step, stagingFailed, cutoff>>
  /\ UNCHANGED otherVars

\* session.get(requested_url, timeout=20, allow_redirects=False)
FetchPage ==
  /\ pc = "validate"
  /\ ~IsMissingUrl(job.requested_url)
  /\ LET recipe_id == JobRecipeIdFromUrl(job.requested_url)
     IN  ~(recipe_id = NoneId \/ job.recipe_id # recipe_id)
  /\ \E r \in FetchOutcomes(job.requested_url) : resp' = r
  /\ issued' = Count("fetch")
  /\ pc' = "classify"
  /\ UNCHANGED <<job, op, parsed, step, mark, stagingFailed, cutoff>>
  /\ UNCHANGED otherVars

\* The fetch raised or the response is not a 200 of the requested URL.
ReportFetchOutcome ==
  /\ pc = "classify"
  /\ ~FetchOk(resp)
  /\ Report(FetchClassification(resp))
  /\ UNCHANGED <<job, resp, parsed, step, stagingFailed, cutoff>>
  /\ UNCHANGED otherVars

\* parse_jsonld_recipe found no Recipe object.
ParseAbsent ==
  /\ pc = "classify"
  /\ FetchOk(resp)
  /\ parsed' = NoParse
  /\ Report(NoRecipeMark)
  /\ UNCHANGED <<job, resp, step, stagingFailed, cutoff>>
  /\ UNCHANGED otherVars

\* parse_jsonld_recipe returned a record; write_staging starts with the
\* upsert of the parent row.
ParseRecipe ==
  /\ pc = "classify"
  /\ FetchOk(resp)
  /\ \E p \in ParseResults : p.present /\ parsed' = p
  /\ step' = 1
  /\ op' = StartOp(StagingOps[1][1], StagingOps[1][2])
  /\ issued' = Count("write_staging")
  /\ pc' = "staging"
  /\ UNCHANGED <<job, resp, mark, stagingFailed, cutoff>>
  /\ UNCHANGED otherVars

\* parse_jsonld_recipe raised (an interactionStatistic on which
\* _extract_counts raises): the call stands outside any try statement and
\* the process ends.
ParseRaises ==
  /\ pc = "classify"
  /\ FetchOk(resp)
  /\ \E st \in StatLists : extract_counts(st, NoCounts).exc # ""
  /\ parsed' = ParseRaised
  /\ pc' = "crashed"
  /\ UNCHANGED <<job, op, resp, step, mark, issued, stagingFailed, cutoff>>
  /\ UNCHANGED otherVars

\* A call of write_staging returned: the next call, or the end of
\* write_staging after the last one.
StagingNext ==
  /\ pc = "staging" /\ op.state = "returned"
  /\ IF step < Len(StagingOps)
       THEN /\ step' = step + 1
            /\ op' = StartOp(StagingOps[step + 1][1], StagingOps[step + 1][2])
            /\ pc' = "staging"
       ELSE /\ pc' = "fresh"
            /\ UNCHANGED <<step, op>>
  /\ UNCHANGED <<job, resp, parsed, mark, issued, stagingFailed, cutoff>>
  /\ UNCHANGED otherVars

\* A call of write_staging raised: except Exception.
StagingFailed ==
  /\ pc = "staging" /\ op.state = "raised"
  /\ stagingFailed' = TRUE
  /\ Report(StagingFailureMark("RuntimeError"))
  /\ UNCHANGED <<job, resp, parsed, step, cutoff>>
  /\ UNCHANGED otherVars

\* The freshness branch.
Freshness ==
  /\ pc = "fresh"
  /\ LET fn == IF IsOlderThanCutoff(parsed, cutoff)
                 THEN "update_keyword_feedback" ELSE "promote_recipe_if_recent"
     IN  /\ op' = StartOp("rpc", fn)
         /\ issued' = Count(fn)
  /\ pc' = "fresh_wait"
  /\ UNCHANGED <<job, resp, parsed, step, mark, stagingFailed, cutoff>>
  /\ UNCHANGED otherVars

\* sb.rpc("mark_crawl_job_done", ...)
MarkDone ==
  /\ pc = "fresh_wait" /\ op.state = "returned"
  /\ Report(Mark("done", "", "", 0, NoneId))
  /\ UNCHANGED <<job, resp, parsed, step, stagingFailed, cutoff>>
  /\ UNCHANGED otherVars

\* The report returned: next iteration.
ReportReturned ==
  /\ pc = "mark" /\ op.state = "returned"
  /\ pc' = PcAfterReport(mark)
  /\ UNCHANGED <<job, op, resp, parsed, step, mark, issued, stagingFailed, cutoff>>
  /\ UNCHANGED otherVars

\* sb.rpc raised outside write_staging: nothing catches the RuntimeError and
\* the process ends.
Crash ==
  /\ pc \in {"claim", "mark", "fresh_wait"} /\ op.state = "raised"
  /\ pc' = "crashed"
  /\ UNCHANGED <<job, op, resp, parsed, step, mark, issued, stagingFailed, cutoff>>
  /\ UNCHANGED otherVars

Next ==
  \/ ClientAttempt
  \/ Claim
  \/ ClaimIdle
  \/ ClaimJob
  \/ InvalidMissingUrl
  \/ InvalidBadUrl
  \/ FetchPage
  \/ ReportFetchOutcome
  \/ ParseAbsent
  \/ ParseRecipe
  \/ ParseRaises
  \/ StagingNext
  \/ StagingFailed
  \/ Freshness
  \/ MarkDone
  \/ ReportReturned
  \/ Crash

Spec == Init /\ [][Next]_vars

(***************************************************************************)
(* The client operations called on their own                               *)
(***************************************************************************)
ClientIdle == pc = "client" /\ op.state # "sending"

Rpc ==
  /\ ClientIdle
  /\ \E fn \in RpcNames : op' = StartOp("rpc", fn)
  /\ UNCHANGED <<pc, job, resp, parsed, step, mark, issued, stagingFailed, cutoff>>
  /\ UNCHANGED otherVars

SelectOne ==
  /\ ClientIdle
  /\ op' = StartOp("select_one", "keyword_feedback")
  /\ UNCHANGED <<pc, job, resp, parsed, step, mark, issued, stagingFailed, cutoff>>
  /\ UNCHANGED otherVars

Upsert ==
  /\ ClientIdle
  /\ \E t \in StagingTables : op' = StartOp("upsert", t)
  /\ UNCHANGED <<pc, job, resp, parsed, step, mark, issued, stagingFailed, cutoff>>
  /\ UNCHANGED otherVars

Insert ==
  /\ ClientIdle
  /\ \E t \in StagingTables, rowsEmpty \in BOOLEAN : op' = StartInsert(t, rowsEmpty)
  /\ UNCHANGED <<pc, job, resp, parsed, step, mark, issued, stagingFailed, cutoff>>
  /\ UNCHANGED otherVars

DeleteWhere ==
  /\ ClientIdle
  /\ \E t \in StagingTables : op' = StartOp("delete_where", t)
  /\ UNCHANGED <<pc, job, resp, parsed, step, mark, issued, stagingFailed, cutoff>>
  /\ UNCHANGED otherVars

ClientInit ==
  /\ pc = "client"
  /\ job = NoJob
  /\ op = NoOp
  /\ resp = NoResp
  /\ parsed = NoParse
  /\ step = 0
  /\ mark = NoMark
  /\ issued = NoCalls
  /\ stagingFailed = FALSE
  /\ cutoff = 0
  /\ OtherInit

ClientNext == Rpc \/ SelectOne \/ Upsert \/ Insert \/ DeleteWhere \/ ClientAttempt

ClientSpec == ClientInit /\ [][ClientNext]_vars

(***************************************************************************)
(* An upsert against a destination table (UpsertSpec)                      *)
(***************************************************************************)
Keys == 1..MaxKey

\* Rows of a table: the value of the conflict key and the rest of the row.
TableRow(k, v) == [key |-> k, val |-> v]

\* The tables the upsert may find: any set of keys, each held by one row.
InitialTables ==
  {<<>>, <<TableRow(1, "old")>>, <<TableRow(MaxKey, "old")>>,
   <<TableRow(1, "old"), TableRow(MaxKey, "old")>>}

\* The rows sent: json.dumps(rows), here one or two rows of distinct keys.
Payloads ==
  {<<TableRow(k, "new")>> : k \in Keys}
  \cup {<<TableRow(ks[1], "new"), TableRow(ks[2], "new")>> :
          ks \in {x \in Keys \X Keys : x[1] # x[2]}}

\* The request sent as a plain POST, without on_conflict and resolution.
UpsertPrefer_Plain == "none"

\* upsert(): "?on_conflict=<columns>" and
\* Prefer: resolution=merge-duplicates,return=minimal
UpsertPrefer == "merge-duplicates"

HasKey(rows, k) == \E i \in DOMAIN rows : rows[i].key = k

\* Insert-or-merge of one row on its conflict key.
MergeRow(rows, r) ==
  IF HasKey(rows, r.key)
    THEN [i \in DOMAIN rows |-> IF rows[i].key = r.key THEN r ELSE rows[i]]
    ELSE Append(rows, r)

RECURSIVE MergeRows(_, _)
MergeRows(rows, new) ==
  IF new = <<>> THEN rows ELSE MergeRows(MergeRow(rows, new[1]), Tail(new))

\* The backend receiving the POST of an upsert.  The conflict key is unique
\* in the table.  With merge-duplicates the statement inserts or merges;
\* without it a row whose key is taken makes the statement fail with 409.
\* The result is the set of <<outcome seen by the client, rows afterwards>>:
\* an applied statement is answered 200 or 201, or its answer is lost in a
\* 503 or a transport failure; a statement not applied is answered 503, 429
\* or is lost.
BackendWrite(prefer, rows, new) ==
  LET conflict == prefer # "merge-duplicates"
                  /\ \E i \in DOMAIN new : HasKey(rows, new[i].key)
      written == MergeRows(rows, new)
      lost == {<<o, rows, FALSE>> : o \in {TransportError, Response(503), Response(429)}}
  IN  IF conflict
        THEN {<<Response(409), rows, FALSE>>} \cup lost
        ELSE {<<o, written, TRUE>> :
                o \in {Response(200), Response(201), Response(503), TransportError}}
             \cup lost

UpsertStart ==
  /\ pc = "upsert" /\ op.state = "idle"
  /\ op' = StartOp("upsert", "stg_recipes")
  /\ UNCHANGED <<pc, job, resp, parsed, step, mark, issued, stagingFailed, cutoff>>
  /\ UNCHANGED destVars
  /\ UNCHANGED <<harvestVars, auxVars>>

\* One attempt of the upsert, answered by the backend.
UpsertAttempt ==
  /\ pc = "upsert" /\ op.state = "sending"
  /\ \E w \in BackendWrite(UpsertPrefer, dest.rows, payload) :
       LET rs == Append(op.responses, w[1])
       IN  /\ op' = [op EXCEPT !.responses = rs, !.state = OpStateAfter(rs)]
           /\ dest' = [rows |-> w[2],
                       applied |-> IF w[3] THEN dest.applied + 1 ELSE dest.applied]
  /\ UNCHANGED <<pc, job, resp, parsed, step, mark, issued, stagingFailed, cutoff>>
  /\ UNCHANGED payload
  /\ UNCHANGED <<harvestVars, auxVars>>

UpsertInit ==
  /\ pc = "upsert"
  /\ job = NoJob
  /\ op = NoOp
  /\ resp = NoResp
  /\ parsed = NoParse
  /\ step = 0
  /\ mark = NoMark
  /\ issued = NoCalls
  /\ stagingFailed = FALSE
  /\ cutoff = 0
  /\ dest \in {[rows |-> t, applied |-> 0] : t \in InitialTables}
  /\ payload \in Payloads
  /\ HarvestOff
  /\ AuxOff

UpsertNext == UpsertStart \/ UpsertAttempt

UpsertSpec == UpsertInit /\ [][UpsertNext]_vars

(***************************************************************************)
(* The harvester                                                           *)
(***************************************************************************)
ConfiguredBudgets == 1..MaxPages

BatchSizes == 1..MaxBatch

\* crawl_jobs before the run: empty, or already holding every id.
InitialQueues == {{}, ListingIdSet}

\* The page loop of one keyword begins: lines 251-255 of main, lines
\* 109-111 of _harvest_keyword_async.
KeywordBegins(f, budget) ==
  /\ feedback' = f
  /\ max_pages' = budget
  /\ page' = 1
  /\ consecutive_zero_new' = 0
  /\ prev_signature' = NoSignature
  /\ lastStop' = NoStop
  /\ lastEnq' = 0
  /\ applied' = 0
  /\ last' = NoHtml
  /\ insLog' = <<>>

\* The sequential page loop after page p: the next page, or the end of the
\* keyword with a stop condition (the budget used up when none occurred;
\* main prints that one as "max_pages").
SyncControl(outcome, p) ==
  IF outcome = "continue" /\ p < max_pages
    THEN /\ page' = p + 1
         /\ hpc' = "page"
         /\ UNCHANGED <<kw, stops, lastStop>>
    ELSE /\ stops' = [stops EXCEPT
                        ![kw] = IF outcome = "continue" THEN "reached_max_pages" ELSE outcome]
         /\ lastStop' = Stop(IF outcome = "continue" THEN "reached_max_pages" ELSE outcome, p)
         /\ kw' = AfterStop(kw)
         /\ hpc' = IF AfterStop(kw) > NumSeeds THEN "finished" ELSE "keyword"
         /\ page' = page

\* _harvest_keyword_async after the page at position bi of the batch: the
\* next page of the batch, the next batch (page += batch_size), or a return.
\* The htmls of a batch the for loop has left are dead and dropped.
AsyncControl(outcome, p) ==
  IF outcome = "continue" /\ bi < Len(batch)
    THEN /\ bi' = bi + 1
         /\ hpc' = "apply"
         /\ UNCHANGED <<page, stops, lastStop, batch>>
  ELSE IF outcome = "continue" /\ page + batch_size <= max_pages
    THEN /\ page' = page + batch_size
         /\ hpc' = "batch"
         /\ batch' = <<>>
         /\ bi' = 0
         /\ UNCHANGED <<stops, lastStop>>
  ELSE /\ stops' = [stops EXCEPT
                      ![kw] = IF outcome = "continue" THEN "reached_max_pages" ELSE outcome]
       /\ lastStop' = Stop(IF outcome = "continue" THEN "reached_max_pages" ELSE outcome, p)
       /\ hpc' = "returned"
       /\ page' = IF outcome = "continue" THEN page + batch_size ELSE page
       /\ batch' = <<>>
       /\ bi' = 0

\* What follows the evaluation of page p in the code that is running.
Control(outcome, p) ==
  IF entry = "sync" THEN SyncControl(outcome, p) /\ UNCHANGED <<batch, bi>>
  ELSE AsyncControl(outcome, p) /\ UNCHANGED kw

\* The body of the page loop for page p whose fetch returned html, the same
\* in both modes: S1, S3, the enqueue, the counter, S2.
ApplyPage(p, html) ==
  /\ applied' = applied + 1
  /\ last' = html
  /\ IF Evaluate(html, prev_signature) # "enqueue"
       THEN /\ Control(Evaluate(html, prev_signature), p)
            /\ UNCHANGED <<queue, prev_signature, consecutive_zero_new, lastEnq, insLog>>
       ELSE \E inserted \in ObservedInserted(queue, html.ids) :
              /\ "returned" \in CallResults
              /\ queue' = BackendEnqueue(queue, html.ids).queue
              /\ prev_signature' = signature_of_ids(html.ids)
              /\ lastEnq' = p
              /\ insLog' = Append(insLog, inserted)
              /\ consecutive_zero_new' = NextZeroNew(consecutive_zero_new, inserted)
              /\ IF IsZeroNewStop(NextZeroNew(consecutive_zero_new, inserted))
                   THEN Control("no_new_jobs_5_pages", p)
                   ELSE Control("continue", p)

\* main, sequential branch, one keyword: the feedback row is read, the
\* budget follows from it and the page loop begins.
SyncKeyword ==
  /\ hpc = "keyword" /\ entry = "sync"
  /\ "returned" \in CallResults
  /\ \E f \in Feedbacks : KeywordBegins(f, PageBudget(f, configured))
  /\ order' = Append(order, SeedList[kw].keyword)
  /\ hpc' = "page"
  /\ UNCHANGED <<entry, kw, configured, batch_size, batch, bi, queue, queue0, stops, seqResult>>
  /\ UNCHANGED <<workerVars, destVars, auxVars>>

\* main, sequential branch, one iteration of the page loop.
SyncPage ==
  /\ hpc = "page" /\ entry = "sync"
  /\ \E html \in FetchResults : ApplyPage(page, html)
  /\ UNCHANGED <<entry, configured, max_pages, batch_size, queue0, feedback,
                 order, seqResult>>
  /\ UNCHANGED <<workerVars, destVars, auxVars>>

\* main with --async: the first keyword reaches total_keywords += 1 inside
\* _run, where total_keywords is a local never assigned before, and the
\* UnboundLocalError ends the run before any feedback is read, any page is
\* fetched or any job is enqueued.
AsyncMain ==
  /\ hpc = "keyword" /\ entry = "async"
  /\ hpc' = "crashed"
  /\ UNCHANGED <<entry, kw, configured, batch_size, batch, bi, queue, queue0, stops,
                 order, seqResult, keywordVars>>
  /\ UNCHANGED <<workerVars, destVars, auxVars>>

\* _harvest_keyword_async: the pages of the next batch are fetched together
\* (asyncio.gather returns the results in the order of the pages).
AsyncFetchBatch ==
  /\ hpc = "batch" /\ entry = "keyword_async"
  /\ batch' \in [1..Cardinality(BatchPages(page, batch_size, max_pages)) -> FetchResults]
  /\ bi' = 1
  /\ hpc' = "apply"
  /\ UNCHANGED <<entry, kw, configured, batch_size, queue, queue0, stops, order, seqResult,
                 keywordVars>>
  /\ UNCHANGED <<workerVars, destVars, auxVars>>

\* _harvest_keyword_async: one iteration of the for loop over the batch.
AsyncApply ==
  /\ hpc = "apply" /\ entry = "keyword_async"
  /\ ApplyPage(page + bi - 1, HtmlOf(batch, bi))
  /\ UNCHANGED <<entry, configured, max_pages, batch_size, queue0, feedback,
                 order, seqResult>>
  /\ UNCHANGED <<workerVars, destVars, auxVars>>

\* sb.select_one raised: nothing in main catches the RuntimeError.
SelectOneRaises ==
  /\ hpc = "keyword" /\ entry = "sync"
  /\ "raised" \in CallResults
  /\ hpc' = "crashed"
  /\ UNCHANGED <<entry, kw, configured, batch_size, batch, bi, queue, queue0, stops,
                 order, seqResult, keywordVars>>
  /\ UNCHANGED <<workerVars, destVars, auxVars>>

\* sb.rpc("enqueue_crawl_jobs") raised, the ids inserted or not: nothing in
\* the harvester catches the RuntimeError.
EnqueueRaises ==
  /\ "raised" \in CallResults
  /\ \E html \in FetchResults :
       /\ \/ hpc = "page" /\ entry = "sync"
          \/ hpc = "apply" /\ entry = "keyword_async" /\ html = HtmlOf(batch, bi)
       /\ Evaluate(html, prev_signature) = "enqueue"
       /\ queue' \in {queue, BackendEnqueue(queue, html.ids).queue}
  /\ hpc' = "crashed"
  /\ batch' = <<>>
  /\ bi' = 0
  /\ UNCHANGED <<entry, kw, configured, batch_size, queue0, stops,
                 order, seqResult, keywordVars>>
  /\ UNCHANGED <<workerVars, destVars, auxVars>>

\* The harvester run again with --async after a sequential run that
\* finished, on the queue the sequential run began with.
RunAsync ==
  /\ hpc = "finished" /\ entry = "sync" /\ ~seqResult.done
  /\ seqResult' = [done |-> TRUE, queue |-> queue, stops |-> stops, lastStop |-> lastStop]
  /\ entry' = "async"
  /\ hpc' = "keyword"
  /\ kw' = 1
  /\ queue' = queue0
  /\ stops' = NoStops
  /\ order' = <<>>
  /\ batch_size' \in BatchSizes
  /\ max_pages' = 0
  /\ page' = 0
  /\ consecutive_zero_new' = 0
  /\ prev_signature' = NoSignature
  /\ feedback' = "absent"
  /\ lastStop' = NoStop
  /\ lastEnq' = 0
  /\ applied' = 0
  /\ last' = NoHtml
  /\ insLog' = <<>>
  /\ UNCHANGED <<configured, batch, bi, queue0>>
  /\ UNCHANGED <<workerVars, destVars, auxVars>>

\* The harvester about to run: main with or without --async under
\* MAX_PAGES_PER_KEYWORD = MaxPages, or _harvest_keyword_async about to be
\* called with a budget and a batch size; the queue is empty or full.
HarvestInit ==
  /\ pc = "harvest"
  /\ job = NoJob
  /\ op = NoOp
  /\ resp = NoResp
  /\ parsed = NoParse
  /\ step = 0
  /\ mark = NoMark
  /\ issued = NoCalls
  /\ stagingFailed = FALSE
  /\ cutoff = 0
  /\ DestOff
  /\ AuxOff
  /\ queue0 \in InitialQueues
  /\ queue = queue0
  /\ stops = NoStops
  /\ order = <<>>
  /\ seqResult = NoResult
  /\ batch = <<>>
  /\ bi = 0
  /\ kw = 1
  /\ KeywordInit
  /\ \/ /\ entry \in {"sync", "async"}
        /\ hpc = "keyword"
        /\ configured = MaxPages
        /\ batch_size = 1
     \/ /\ entry = "keyword_async"
        /\ hpc = "call"
        /\ configured \in ConfiguredBudgets
        /\ batch_size \in BatchSizes

\* _harvest_keyword_async called with max_pages = configured and batch_size.
AsyncKeyword ==
  /\ hpc = "call" /\ entry = "keyword_async"
  /\ KeywordBegins("absent", configured)
  /\ order' = Append(order, SeedList[kw].keyword)
  /\ hpc' = "batch"
  /\ UNCHANGED <<entry, kw, configured, batch_size, batch, bi, queue, queue0, stops, seqResult>>
  /\ UNCHANGED <<workerVars, destVars, auxVars>>

HarvestNext ==
  \/ SyncKeyword
  \/ SyncPage
  \/ AsyncMain
  \/ AsyncKeyword
  \/ AsyncFetchBatch
  \/ AsyncApply
  \/ SelectOneRaises
  \/ EnqueueRaises
  \/ RunAsync

HarvestSpec == HarvestInit /\ [][HarvestNext]_vars

(***************************************************************************)
(* One listing fetch, attempt by attempt                                   *)
(***************************************************************************)
\* Every status but 200 retried.
FetchDecision_RetryAll(o, attempt) ==
  IF ~o.exc /\ o.status = 200 THEN "text"
  ELSE IF attempt < 3 THEN "retry"
  ELSE "none"

\* The body of the loop `for attempt in range(1, 4)` of _fetch_listing_sync
\* and _fetch_listing_async after the attempt that got o: return resp.text,
\* sleep and continue, or return None.
FetchDecision(o, attempt) ==
  IF ~o.exc /\ o.status = 200 THEN "text"
  ELSE IF (o.exc \/ o.status = 429 \/ o.status >= 500) /\ attempt < 3 THEN "retry"
  ELSE "none"

\* client.get(url, follow_redirects=False) and what the loop does with it.
ListingAttempt ==
  /\ listing.state = "trying"
  /\ \E o \in ListingAttempts :
       LET outs == Append(listing.outs, o)
           decision == FetchDecision(o, Len(outs))
       IN  listing' = [outs |-> outs,
                       state |-> IF decision = "retry" THEN "trying" ELSE "returned",
                       html |-> IF decision = "text" THEN o.html ELSE NoHtml]
  /\ UNCHANGED <<workerVars, destVars, harvestVars, sig, extract, stg, kwd, doc>>

FetchInit ==
  /\ WorkerOff("fetch_listing")
  /\ DestOff
  /\ HarvestOff
  /\ SigOff
  /\ ExtractOff
  /\ StagingOff
  /\ KeywordsOff
  /\ ParserOff
  /\ listing = [outs |-> <<>>, state |-> "trying", html |-> NoHtml]

FetchNext == ListingAttempt

FetchSpec == FetchInit /\ [][FetchNext]_vars

(***************************************************************************)
(* signature_of_ids on a list and on a rearrangement of it                 *)
(***************************************************************************)
\* Lists of ids, repetitions included, up to MaxSigLen long.
IdSeqs == UNION {[1..n -> ListingIdSet] : n \in 0..MaxSigLen}

\* The permutations of the positions 1..n.
PositionPerms(n) ==
  {f \in [1..n -> 1..n] : \A i, j \in 1..n : i # j => f[i] # f[j]}

Identity(n) == [i \in 1..n |-> i]

\* The list with the element at position f[i] moved to position i.
Permute(ids, f) == [i \in 1..Len(ids) |-> ids[f[i]]]

\* signature_of_ids(ids) and signature_of_ids of the rearranged list.
Sign ==
  /\ sig.state = "ready"
  /\ sig' = [sig EXCEPT !.state = "done",
                        !.original = signature_of_ids(sig.ids),
                        !.permuted = signature_of_ids(Permute(sig.ids, sig.perm))]
  /\ UNCHANGED <<workerVars, destVars, harvestVars, listing, extract, stg, kwd, doc>>

SigInit ==
  /\ WorkerOff("signature_of_ids")
  /\ DestOff
  /\ HarvestOff
  /\ ListingOff
  /\ ExtractOff
  /\ StagingOff
  /\ KeywordsOff
  /\ ParserOff
  /\ \E ids \in IdSeqs :
       \E f \in PositionPerms(Len(ids)) :
         sig = [ids |-> ids, perm |-> f, state |-> "ready",
                original |-> NoSignature, permuted |-> NoSignature]

SigNext == Sign

SigSpec == SigInit /\ [][SigNext]_vars

(***************************************************************************)
(* extract_recipe_ids_from_listing                                         *)
(***************************************************************************)
\* The function applied to the anchors of the document.
Extract ==
  /\ extract.state = "ready"
  /\ extract' = [extract EXCEPT !.state = "done",
                                !.out = extract_recipe_ids_from_listing(extract.hrefs)]
  /\ UNCHANGED <<workerVars, destVars, harvestVars, listing, sig, stg, kwd, doc>>

ExtractInit ==
  /\ WorkerOff("extract_recipe_ids_from_listing")
  /\ DestOff
  /\ HarvestOff
  /\ ListingOff
  /\ SigOff
  /\ StagingOff
  /\ KeywordsOff
  /\ ParserOff
  /\ \E hrefs \in UNION {[1..n -> Hrefs] : n \in 0..MaxAnchors} :
       extract = [hrefs |-> hrefs, state |-> "ready", out |-> <<>>]

ExtractNext == Extract

ExtractSpec == ExtractInit /\ [][ExtractNext]_vars

(***************************************************************************)
(* write_staging against the staging tables (WriteStagingSpec)                  *)
(***************************************************************************)
\* Rows of other recipes, staged before.
OtherRows(recipe_id) ==
  [t \in StagingTables |->
     UNION {{StagingRows(t, p)[i] : i \in DOMAIN StagingRows(t, p)} :
              p \in {ParsedRecipe(o, "n0", <<"k2">>, <<"i2">>, <<>>,
                                  extract_comments(<<TextComment(Txt("a", FALSE, FALSE, FALSE))>>)) :
                       o \in RecipeIds \ {recipe_id}}}]

\* One client call of write_staging: the call at stg.pos of StagingOps ends
\* as a client call can; a call that returned was applied by the backend, a
\* call that raised was applied (its answers lost) or not.  A raise leaves
\* write_staging, the return of the last call ends it.
WriteStagingCall ==
  /\ stg.state = "writing"
  /\ \E result \in CallResults, done \in BOOLEAN :
       /\ result = "returned" => done
       /\ LET kind == StagingOps[stg.pos][1]
              table == StagingOps[stg.pos][2]
              after == IF done
                         THEN [stg.tables EXCEPT ![table] =
                                 StagingApply(kind, table, stg.tables[table], stg.parsed)]
                         ELSE stg.tables
          IN  stg' = [stg EXCEPT
                        !.tables = after,
                        !.pos = IF result = "returned" /\ stg.pos < Len(StagingOps)
                                  THEN stg.pos + 1 ELSE stg.pos,
                        !.state = IF result = "raised" THEN "raised"
                                  ELSE IF stg.pos = Len(StagingOps) THEN "returned"
                                  ELSE "writing"]
  /\ UNCHANGED <<workerVars, destVars, harvestVars, listing, sig, extract, kwd, doc>>

\* The job of the recipe is claimed again and its page parsed again:
\* write_staging is called with the latest parse.  stg.earlier and
\* stg.before record how the earlier write ended and the tables it left.
WriteStagingAgain ==
  /\ stg.phase = "earlier"
  /\ stg.state \in {"raised", "returned"}
  /\ \E p \in ParsedRecipes(stg.parsed.recipe_id) :
       stg' = [stg EXCEPT !.phase = "latest", !.parsed = p, !.pos = 1,
                          !.state = "writing", !.earlier = stg.state,
                          !.before = stg.tables]
  /\ UNCHANGED <<workerVars, destVars, harvestVars, listing, sig, extract, kwd, doc>>

WriteStagingInit ==
  /\ WorkerOff("write_staging")
  /\ DestOff
  /\ HarvestOff
  /\ ListingOff
  /\ SigOff
  /\ ExtractOff
  /\ KeywordsOff
  /\ ParserOff
  /\ \E r \in RecipeIds : \E p \in ParsedRecipes(r) :
       stg = [phase |-> "earlier", parsed |-> p, pos |-> 1, state |-> "writing",
              tables |-> OtherRows(r), earlier |-> "none", before |-> OtherRows(r)]

WriteStagingNext == WriteStagingCall \/ WriteStagingAgain

WriteStagingSpec == WriteStagingInit /\ [][WriteStagingNext]_vars

(***************************************************************************)
(* _extract_keywords on a keywords value (KeywordsSpec)                    *)
(***************************************************************************)
ExtractKeywords ==
  /\ kwd.state = "ready"
  /\ kwd' = [kwd EXCEPT !.state = "done",
                        !.raw = extract_keywords(kwd.value).raw,
                        !.parts = extract_keywords(kwd.value).parts]
  /\ UNCHANGED <<workerVars, destVars, harvestVars, listing, sig, extract, stg, doc>>

KeywordsInit ==
  /\ WorkerOff("extract_keywords")
  /\ DestOff
  /\ HarvestOff
  /\ ListingOff
  /\ SigOff
  /\ ExtractOff
  /\ StagingOff
  /\ ParserOff
  /\ \E v \in KeywordsValues :
       kwd = [value |-> v, state |-> "ready", raw |-> NoneStr, parts |-> <<>>]

KeywordsNext == ExtractKeywords

KeywordsSpec == KeywordsInit /\ [][KeywordsNext]_vars

(***************************************************************************)
(* parse_jsonld_recipe on the blocks of a page (ParserSpec)                *)
(***************************************************************************)
Parse ==
  /\ doc.state = "ready"
  /\ doc' = [doc EXCEPT !.state = "done", !.result = parse_jsonld_recipe(doc.blocks)]
  /\ UNCHANGED <<workerVars, destVars, harvestVars, listing, sig, extract, stg, kwd>>

ParserInit ==
  /\ WorkerOff("parse_jsonld_recipe")
  /\ DestOff
  /\ HarvestOff
  /\ ListingOff
  /\ SigOff
  /\ ExtractOff
  /\ StagingOff
  /\ KeywordsOff
  /\ \E b \in Pages : doc = [blocks |-> b, state |-> "ready", result |-> AbsentResult]

ParserNext == Parse

ParserSpec == ParserInit /\ [][ParserNext]_vars

(***************************************************************************)
(* Properties of the Detail Worker (checked under Spec)                    *)
(***************************************************************************)
FreshnessCalls == issued["update_keyword_feedback"] + issued["promote_recipe_if_recent"]

\* A 200 response whose final URL is the requested one.
Page200(r) == ~r.exc /\ r.status = 200 /\ r.url_same

\* The page fetch of this iteration has been made and classified.
Classified == issued["fetch"] = 1 /\ pc # "classify"

\* C1: a claimed job gets exactly one terminal report (done, failed or
\* invalid) before the worker issues its next claim: never two reports for
\* one claim, and no new claim while the claimed job is unreported.
C1_OneReportPerClaim ==
  [][ /\ Reports' <= 1
      /\ (pc # "claim" /\ pc' = "claim") => (job = NoJob \/ Reports = 1) ]_vars

\* A job went through the whole loop body, was reported done once, and the
\* worker is about to claim again.
C1_Witness ==
  pc = "loop" /\ job # NoJob /\ mark.kind = "done" /\ Reports = 1

\* requested_url as the claim describes a bad one: missing, empty, not
\* matching the suffix-free pattern, or parsing to another id than the job's.
BadRequestedUrl(j) ==
  LET u == j.requested_url
  IN  \/ u.kind # "str"
      \/ u.body = "empty"
      \/ ~RE_RECIPE_URL_match(u)
      \/ u.id # j.recipe_id

\* C2: a claimed job whose requested_url is missing, empty, does not match
\* the suffix-free recipe-URL pattern or parses to another id than the job's
\* recipe_id is marked invalid (bad_requested_url for an id mismatch) and no
\* page fetch is issued for it.
C2_BadUrlNeverFetched ==
  (job # NoJob /\ BadRequestedUrl(job)) =>
    /\ issued["fetch"] = 0
    /\ pc # "validate" => mark.kind = "invalid"
    /\ (pc # "validate" /\ RE_RECIPE_URL_match(job.requested_url)
          /\ job.requested_url.id # job.recipe_id)
         => mark.reason = "bad_requested_url"

\* C3: the outcome of the page fetch is classified by the first matching
\* rule: exception -> failed request_error:<kind>; 301/302 -> invalid
\* redirect; final URL differs -> invalid url_mismatch; 404/410 -> invalid
\* notfound; 429 or >= 500 -> failed http_<status>; any other non-200 ->
\* failed http_<status>; only a 200 of the requested URL is parsed.
C3_FetchClassificationOrder ==
  /\ Classified =>
       /\ resp.exc => mark = Mark("failed", "request_error", resp.exc_kind, 0, NoneId)
       /\ (~resp.exc /\ resp.status \in {301, 302})
            => mark = Mark("invalid", "redirect", "", 0, resp.status)
       /\ (~resp.exc /\ resp.status \notin {301, 302} /\ ~resp.url_same)
            => mark = Mark("invalid", "url_mismatch", "", 0, resp.status)
       /\ (~resp.exc /\ resp.url_same /\ resp.status \in {404, 410})
            => mark = Mark("invalid", "notfound", "", 0, resp.status)
       /\ (~resp.exc /\ resp.url_same /\ (resp.status = 429 \/ resp.status >= 500))
            => mark = Mark("failed", "http", "", resp.status, resp.status)
       /\ (~resp.exc /\ resp.url_same /\ resp.status < 500
             /\ resp.status \notin {200, 301, 302, 404, 410, 429})
            => mark = Mark("failed", "http", "", resp.status, resp.status)
       /\ (~resp.exc /\ resp.url_same /\ resp.status = 200)
            => mark.reason \notin {"request_error", "redirect", "url_mismatch",
                                   "notfound", "http"}
  /\ (issued["write_staging"] > 0 \/ mark.reason = "no_recipe_jsonld")
       => (~resp.exc /\ resp.url_same /\ resp.status = 200)

\* A 404 whose final URL is not the requested one is reported by the
\* earlier rule, url_mismatch.
C3_Witness ==
  Classified /\ resp.status = 404 /\ ~resp.url_same /\ pc = "loop"
  /\ mark.reason = "url_mismatch"

\* Responses the claim calls non-retryable client responses.
NonRetryableClientResponse(r) ==
  /\ ~r.exc
  /\ \/ (r.status >= 400 /\ r.status < 500 /\ r.status # 429)
     \/ r.status \in {301, 302, 303, 307, 308}
     \/ ~r.url_same

\* C4 as stated: every non-retryable client response to the page fetch (any
\* 4xx other than 429, any redirect, any URL mismatch) results in the job
\* being marked invalid, never failed.
C4_Original ==
  (Classified /\ NonRetryableClientResponse(resp)) => mark.kind = "invalid"

\* C4 amended: a response with status 301 or 302, a final URL other than
\* the requested one, or status 404 or 410 results in the job being marked
\* invalid, never failed; every other 4xx or 3xx response of the requested
\* URL is marked failed with reason http_<status>.
C4_Amended ==
  (Classified /\ NonRetryableClientResponse(resp)) =>
    IF resp.status \in {301, 302, 404, 410} \/ ~resp.url_same
      THEN mark.kind = "invalid"
      ELSE mark = Mark("failed", "http", "", resp.status, resp.status)

\* A 403 of the requested URL has been reported as failed.
C4_Witness ==
  Classified /\ resp.status = 403 /\ resp.url_same /\ pc = "loop"
  /\ mark.kind = "failed"

\* C5: when a call of the staging write fails, the job is marked failed with
\* reason staging_write:<kind>, is not marked done in that attempt, and
\* neither update_keyword_feedback nor promote_recipe_if_recent is called.
C5_StagingFailure ==
  stagingFailed =>
    /\ mark = Mark("failed", "staging_write", "RuntimeError", 0, 200)
    /\ issued["mark_crawl_job_failed"] = 1
    /\ issued["mark_crawl_job_done"] = 0
    /\ FreshnessCalls = 0

\* A child delete failed after the parent upsert, the failure was reported
\* and the worker is back at the top of the loop.
C5_Witness ==
  stagingFailed /\ step = 3 /\ pc = "loop" /\ mark.kind = "failed"

\* C6: after a successful staging write exactly one freshness call is made:
\* update_keyword_feedback when the publish date is present and strictly
\* older than the cutoff, promote_recipe_if_recent otherwise (absent date or
\* date equal to the cutoff included).
C6_FreshnessBranch ==
  /\ FreshnessCalls <= 1
  /\ (pc = "fresh_wait" \/ mark.kind = "done") => FreshnessCalls = 1
  /\ FreshnessCalls = 1 =>
       /\ step = Len(StagingOps) /\ ~stagingFailed
       /\ issued["update_keyword_feedback"] = 1
            <=> (parsed.date_published # NoDate /\ parsed.date_published < cutoff)

\* A recipe published on the cutoff date has been promoted, not fed back.
C6_Witness ==
  /\ mark.kind = "done" /\ parsed.date_published = cutoff
  /\ issued["promote_recipe_if_recent"] = 1 /\ issued["update_keyword_feedback"] = 0

\* C7: a 200 page without a Recipe object is marked invalid with reason
\* no_recipe_jsonld, and no staging write, feedback call or promote call is
\* made for the job.
C7_NoRecipe ==
  (Classified /\ Page200(resp) /\ ~parsed.present /\ ~parsed.raised) =>
    /\ mark = Mark("invalid", "no_recipe_jsonld", "", 0, 200)
    /\ issued["mark_crawl_job_invalid"] = 1
    /\ issued["write_staging"] = 0
    /\ FreshnessCalls = 0
    /\ issued["mark_crawl_job_done"] = 0 /\ issued["mark_crawl_job_failed"] = 0

\* The report of a page without recipe has returned.
C7_Witness ==
  Classified /\ Page200(resp) /\ ~parsed.present /\ pc = "loop"
  /\ mark.reason = "no_recipe_jsonld"

(***************************************************************************)
(* Properties of the client (checked under ClientSpec)                     *)
(***************************************************************************)
\* Outcomes the transport policy retries: transport failure, 429, 5xx.
RetryableOutcome(o) == o.exc \/ o.status = 429 \/ o.status >= 500

\* A 4xx response other than 429.
HardClientError(o) == ~o.exc /\ o.status >= 400 /\ o.status < 500 /\ o.status # 429

Sent == Len(op.responses)

\* C8: an operation sends at most 3 requests; attempt k+1 is sent if and
\* only if attempt k ended in a transport failure, a 429 or a 5xx and k < 3,
\* so any other response on attempt k ends the operation after k requests.
C8_RetryPolicy ==
  /\ Sent <= 3
  /\ \A k \in 1..(Sent - 1) : RetryableOutcome(op.responses[k])
  /\ (Sent >= 1 /\ Sent < 3 /\ RetryableOutcome(op.responses[Sent])) => op.state = "sending"
  /\ (Sent >= 1 /\ ~RetryableOutcome(op.responses[Sent])) => OpEnded(op)
  /\ Sent = 3 => OpEnded(op)

\* A 429 was retried and the 404 that answered the retry ended the operation
\* after two requests.
C8_Witness ==
  /\ OpEnded(op) /\ Sent = 2
  /\ op.responses[1] = Response(429) /\ op.responses[2] = Response(404)

\* C9: for each of the five operations a 4xx response other than 429 is
\* surfaced as a hard failure at once: it is the last request of the
\* operation, and the only one when it answers the first attempt.
C9_HardClientError ==
  \A k \in 1..Sent :
    HardClientError(op.responses[k]) => (k = Sent /\ op.state = "raised")

\* An insert answered 404 on its first attempt has raised after one request.
C9_Witness ==
  op.kind = "insert" /\ Sent = 1 /\ op.responses[1] = Response(404) /\ op.state = "raised"

\* C10: when all 3 attempts end in a retryable failure the operation
\* surfaces a hard failure and never returns as a success, whether the last
\* attempt was a transport exception or a 429/5xx response.
C10_ExhaustedRetries ==
  (Sent = 3 /\ \A k \in 1..3 : RetryableOutcome(op.responses[k])) => op.state = "raised"

\* An upsert whose third attempt was answered 429 has raised.
C10_Witness ==
  /\ op.kind = "upsert" /\ Sent = 3 /\ op.state = "raised"
  /\ op.responses[1] = TransportError /\ op.responses[3] = Response(429)

(***************************************************************************)
(* Properties of a retried upsert (checked under UpsertSpec)               *)
(***************************************************************************)
NoDuplicateKeys(rows) ==
  \A i, j \in DOMAIN rows : rows[i].key = rows[j].key => i = j

Holds(rows, new) == \A i \in DOMAIN new : \E j \in DOMAIN rows : rows[j] = new[i]

\* C11: an upsert answered 503 and then 2xx completes successfully after
\* exactly 2 requests and the destination then holds one row per conflict
\* key, the rows sent among them, also when the 503 attempt had applied the
\* write: the retry of an applied write is merged, never refused as a
\* conflict.
C11_IdempotentRetry ==
  /\ \A k \in 1..Sent : op.responses[k] # Response(409)
  /\ NoDuplicateKeys(dest.rows)
  /\ (Sent >= 2 /\ op.responses[1] = Response(503)
        /\ op.responses[2] \in {Response(200), Response(201)}) =>
       /\ Sent = 2 /\ op.state = "returned"
       /\ Holds(dest.rows, payload)

\* The write was applied by the attempt answered 503 and again by the retry.
C11_Witness ==
  /\ op.responses = <<Response(503), Response(200)>> /\ op.state = "returned"
  /\ dest.applied = 2 /\ Len(dest.rows) = MaxKey

(***************************************************************************)
(* Properties of the harvester (checked under HarvestSpec)                 *)
(***************************************************************************)
\* C12: for the same seeds, listing pages, feedback and initial queue, the
\* concurrent mode (any batch size) ends with the queue contents, the stop
\* reasons and the stop page the sequential mode ended with.
C12_ModesAgree ==
  (seqResult.done /\ entry = "async" /\ hpc \in {"finished", "crashed"}) =>
    /\ queue = seqResult.queue
    /\ stops = seqResult.stops
    /\ lastStop = seqResult.lastStop

\* What a page is, read off its content alone: p is the page number, h what
\* its fetch returned, before what the fetch of the page before it returned.
FailedFetch(h) == ~h.ok \/ h.blank

EmptyListing(h) == h.ok /\ ~h.blank /\ h.ids = <<>>

RepeatedListing(p, h, before) ==
  /\ p > 1
  /\ h.ok /\ ~h.blank /\ h.ids # <<>>
  /\ before.ok /\ ~before.blank /\ h.ids = before.ids

ExpectedStop(p, h, before) ==
  IF FailedFetch(h) THEN "fetch_failed"
  ELSE IF EmptyListing(h) THEN "empty_page"
  ELSE IF RepeatedListing(p, h, before) THEN "loop_signature"
  ELSE "none"

Running == hpc \in {"page", "batch", "apply"}

\* C13: in _harvest_keyword_async the page at position bi of a batch is
\* evaluated on its own content whatever the later pages of the batch
\* returned, after every earlier page of the keyword was enqueued; it is
\* enqueued exactly when its own content calls for no stop, and a stop it
\* calls for is recorded at its own page number.
C13_BatchAppliedInOrder ==
  [][(entry = "keyword_async" /\ hpc = "apply" /\ hpc' # "crashed") =>
       LET p == page + bi - 1
           h == batch[bi]
       IN  /\ lastEnq = p - 1
           /\ applied' = p
           /\ last' = h
           /\ IF ExpectedStop(p, h, last) = "none"
                THEN lastEnq' = p
                ELSE /\ lastEnq' = lastEnq
                     /\ queue' = queue
                     /\ lastStop' = Stop(ExpectedStop(p, h, last), p)]_vars

\* The first page of a batch was enqueued although the fetch of the second
\* page of the same batch had failed.
C13_Witness ==
  /\ entry = "keyword_async" /\ hpc = "apply"
  /\ Len(batch) >= 2 /\ bi = 2
  /\ FailedFetch(batch[2]) /\ ~FailedFetch(batch[1])
  /\ lastEnq = page
  /\ queue # queue0

\* C14: a page whose extraction yields no id ends the keyword with
\* empty_page at that page, in both modes: it is never sent to
\* enqueue_crawl_jobs and never ends the keyword with loop_signature, and no
\* page with an empty id list ever becomes the previous signature.
C14_EmptyPageFirst ==
  /\ (applied >= 1 /\ EmptyListing(last)) =>
       /\ lastStop = Stop("empty_page", applied)
       /\ lastEnq < applied
       /\ ~Running
  /\ prev_signature # signature_of_ids(<<>>)

\* A keyword of a sequential run stopped at an empty page after at least one
\* enqueued page.
C14_Witness ==
  /\ applied >= 2 /\ EmptyListing(last)
  /\ lastStop.reason = "empty_page"
  /\ lastEnq = applied - 1
  /\ entry = "sync"

\* C15: a non-empty page with the ordered ids of the page evaluated just
\* before it for the same keyword ends the keyword with loop_signature at
\* that page without an enqueue, and a keyword that ended so has no page
\* enqueued or evaluated beyond the one before the repeated page.
C15_LoopSignature ==
  /\ [][(applied' = applied + 1 /\ RepeatedListing(applied', last', last)) =>
           /\ lastStop' = Stop("loop_signature", applied')
           /\ lastEnq' = lastEnq
           /\ queue' = queue]_vars
  /\ [](lastStop.reason = "loop_signature" =>
          /\ ~Running
          /\ applied = lastStop.page
          /\ lastEnq = lastStop.page - 1)

\* A keyword stopped at page 3 because it repeated page 2, which had been
\* enqueued.
C15_Witness ==
  /\ lastStop = Stop("loop_signature", 3)
  /\ lastEnq = 2
  /\ Len(last.ids) = 2
  /\ prev_signature = signature_of_ids(last.ids)

\* The number of zeros at the end of a list of inserted counts.
RECURSIVE TrailingZeros(_)
TrailingZeros(log) ==
  IF log = <<>> THEN 0
  ELSE IF log[Len(log)] # 0 THEN 0
  ELSE 1 + TrailingZeros(SubSeq(log, 1, Len(log) - 1))

FetchedUpTo ==
  IF hpc = "apply" THEN page + Len(batch) - 1 ELSE applied

\* C17: the budget of the keyword being crawled is 2 when its feedback row
\* says is_stale and the configured maximum otherwise (no row included), and
\* no page beyond the budget is fetched, evaluated or enqueued, for every
\* batch size.
C17_PageBudget ==
  (order # <<>>) =>
    /\ max_pages = (IF feedback = "true" THEN 2 ELSE configured)
    /\ FetchedUpTo <= max_pages
    /\ applied <= max_pages
    /\ lastEnq <= max_pages
    /\ Running => page <= max_pages

\* A stale keyword used up its budget of 2 under a larger configured maximum.
C17_Witness ==
  /\ entry = "sync" /\ feedback = "true" /\ configured > 2
  /\ lastStop = Stop("reached_max_pages", 2)
  /\ lastEnq = 2

\* C18: the step at which a fetch fails enqueues nothing, ends the keyword
\* with fetch_failed at that page so that no later page of it is fetched,
\* and in a sequential run hands over to the next seed keyword; a
\* sequential run that finishes has crawled every seed keyword.
C18_FetchFailureIsLocal ==
  /\ [][(applied' = applied + 1 /\ FailedFetch(last')) =>
           /\ lastStop' = Stop("fetch_failed", applied')
           /\ lastEnq' = lastEnq
           /\ queue' = queue
           /\ entry = "sync" =>
                /\ kw' = kw + 1
                /\ hpc' = IF kw < NumSeeds THEN "keyword" ELSE "finished"
                /\ \A k \in 1..NumSeeds : k # kw => stops'[k] = stops[k]]_vars
  /\ [](lastStop.reason = "fetch_failed" => ~Running /\ lastEnq = lastStop.page - 1)
  /\ []((entry = "sync" /\ hpc = "finished") =>
          /\ \A k \in 1..NumSeeds : stops[k] \in StopReasons
          /\ Len(order) = NumSeeds)

\* The first keyword ended with a failed fetch and the run went on to crawl
\* the other keywords to their own ends.
C18_Witness ==
  /\ entry = "sync" /\ hpc = "finished"
  /\ stops[1] = "fetch_failed"
  /\ stops[2] = "reached_max_pages"
  /\ stops[NumSeeds] = "empty_page"
  /\ queue # queue0

\* The seed keywords in the order the configuration lists them, tier 1
\* before tier 2.
SeedOrder == TIER_1_SEEDS \o TIER_2_SEEDS

KeywordEnded ==
  /\ order # <<>>
  /\ hpc \in {"keyword", "finished", "returned"}

\* C20: whatever the listing server returns, the crawl of a keyword with
\* budget max_pages evaluates at most max_pages pages: every step of the
\* page loop evaluates one more page (a batch fetch is followed by the
\* evaluation of its first page), so the crawl ends within that many pages,
\* and when it has ended it has one of the five stop reasons, set once.
C20_KeywordTerminates ==
  /\ [](order # <<>> => applied <= max_pages)
  /\ [](KeywordEnded => (lastStop.reason \in StopReasons /\ lastStop.page = applied))
  /\ [](Running => lastStop = NoStop)
  /\ [][Running =>
          \/ applied' = applied + 1
          \/ hpc' = "crashed"
          \/ hpc = "batch" /\ hpc' = "apply" /\ bi' = 1 /\ Len(batch') >= 1]_vars

\* A listing server that alternated its contents was crawled by
\* _harvest_keyword_async up to the budget and no further.
C20_Witness ==
  /\ entry = "keyword_async" /\ hpc = "returned"
  /\ max_pages = MaxPages
  /\ applied = max_pages
  /\ lastStop = Stop("reached_max_pages", max_pages)

(***************************************************************************)
(* Further properties of the Detail Worker (checked under Spec)            *)
(***************************************************************************)
\* C26: while the worker holds no job with an id (the claim answered with
\* nothing, an empty list or an object whose id is null) it has issued no
\* fetch, no staging write and no terminal mark since that claim; the step
\* that finds the claim idle issues nothing, and the next backend call
\* after it is claim_next_crawl_job again.
C26_IdleClaim ==
  /\ [](job.id = NoneId =>
          /\ pc \in {"loop", "claim", "crashed"}
          /\ \A c \in CallNames \ {"claim_next_crawl_job"} : issued[c] = 0
          /\ mark = NoMark)
  /\ [][(pc = "claim" /\ pc' = "loop") => (job' = NoJob /\ issued' = issued /\ op' = op)]_vars
  /\ [][pc = "loop" =>
          (pc' = "claim" /\ op'.kind = "rpc" /\ op'.target = "claim_next_crawl_job")]_vars

\* A claim was answered idle and the worker is back at the top of its loop.
C26_Witness ==
  /\ pc = "loop" /\ job = NoJob
  /\ issued["claim_next_crawl_job"] = 1
  /\ op.target = "claim_next_crawl_job" /\ op.state = "returned"

\* The call in progress has ended in failure: the last attempt got no
\* response, or the response handed back has an error status.
FailedCall(o) ==
  /\ Len(o.responses) >= 1
  /\ LET r == o.responses[Len(o.responses)]
     IN  \/ r.exc /\ Len(o.responses) = retry_attempts
         \/ ~r.exc /\ r.status >= 400
              /\ ((r.status < 500 /\ r.status # 429) \/ Len(o.responses) = retry_attempts)

FreshnessRpcs == {"update_keyword_feedback", "promote_recipe_if_recent"}

\* C30: a failed update_keyword_feedback or promote_recipe_if_recent call,
\* made after a staging write that succeeded, ends the worker's loop: the
\* next step issues nothing, and from then on no terminal mark and no claim
\* is issued, the job staying as claimed.
C30_FreshnessFailure ==
  /\ [][(pc = "fresh_wait" /\ FailedCall(op)) =>
          (pc' = "crashed" /\ issued' = issued /\ mark' = NoMark /\ op' = op)]_vars
  /\ [][pc # "crashed"]_vars
  /\ []((pc = "crashed" /\ op.target \in FreshnessRpcs) =>
          /\ FailedCall(op)
          /\ step = Len(StagingOps) /\ ~stagingFailed
          /\ issued["write_staging"] = 1
          /\ \A c \in TerminalRpcs : issued[c] = 0
          /\ mark = NoMark
          /\ job.id # NoneId)

\* promote_recipe_if_recent was refused with a 400 after the staging write
\* and the worker stopped there.
C30_Witness ==
  /\ pc = "crashed" /\ op.target = "promote_recipe_if_recent"
  /\ op.responses = <<Response(400)>>
  /\ step = Len(StagingOps)

(***************************************************************************)
(* Properties of one listing fetch (checked under FetchSpec)               *)
(***************************************************************************)
RetryableAttempt(o) == o.exc \/ (o.status = 429 \/ o.status >= 500)

\* C27: a listing fetch makes at most 3 attempts; every attempt before the
\* last one met a transport error, a 429 or a status >= 500; a 200 response
\* ends the fetch with its body; any other status that is not retryable
\* ends it with None at that attempt; three retryable failures end it with
\* None; and it goes on trying in no other case.
C27_ListingFetchRetry ==
  LET n == Len(listing.outs)
  IN  /\ n <= 3
      /\ \A k \in 1..(n - 1) : RetryableAttempt(listing.outs[k])
      /\ listing.state = "trying" =>
           /\ n < 3
           /\ \A k \in 1..n : RetryableAttempt(listing.outs[k])
      /\ (n >= 1 /\ ~listing.outs[n].exc /\ listing.outs[n].status = 200) =>
           (listing.state = "returned" /\ listing.html = listing.outs[n].html)
      /\ (n >= 1 /\ ~RetryableAttempt(listing.outs[n]) /\ listing.outs[n].status # 200) =>
           (listing.state = "returned" /\ listing.html = NoHtml)
      /\ (n = 3 /\ RetryableAttempt(listing.outs[3])) =>
           (listing.state = "returned" /\ listing.html = NoHtml)
      /\ listing.state = "returned" => listing.html = FetchListing(listing.outs \o <<NoAttempt, NoAttempt>>)

\* A 404 on the second attempt, after a 503, ended the fetch there.
C27_Witness ==
  /\ listing.state = "returned"
  /\ Len(listing.outs) = 2
  /\ listing.outs[1].status = 503
  /\ listing.outs[2].status = 404
  /\ listing.html = NoHtml

IsRecipeHref(h) ==
  /\ h.attr = "text"
  /\ h.form \in {"rel", "abs"}
  /\ h.suffix # "junk"

\* Position in the document of the first recipe href with the given id.
FirstAt(hrefs, id) ==
  CHOOSE i \in 1..Len(hrefs) :
    /\ IsRecipeHref(hrefs[i]) /\ hrefs[i].id = id
    /\ \A j \in 1..(i - 1) : ~(IsRecipeHref(hrefs[j]) /\ hrefs[j].id = id)

\* C25: the result holds the ids of the recipe hrefs of the document and
\* nothing else, each once, ordered by the position of their first
\* occurrence.
C25_ExtractOrderedUnique ==
  extract.state = "done" =>
    LET hrefs == extract.hrefs
        out == extract.out
    IN  /\ {out[i] : i \in DOMAIN out} =
             {hrefs[i].id : i \in {j \in DOMAIN hrefs : IsRecipeHref(hrefs[j])}}
        /\ \A i, j \in DOMAIN out : i # j => out[i] # out[j]
        /\ \A i, j \in DOMAIN out :
             i < j => FirstAt(hrefs, out[i]) < FirstAt(hrefs, out[j])

\* Id 2 before id 1, id 2 repeated after it in another form, and an href
\* that is no recipe address.
C25_Witness ==
  /\ extract.state = "done"
  /\ Len(extract.hrefs) = 3
  /\ extract.hrefs[1] = Href("text", FALSE, "abs", 2, FALSE, "query")
  /\ extract.hrefs[2] = Href("text", FALSE, "rel", 1, FALSE, "none")
  /\ extract.hrefs[3] = Href("text", TRUE, "rel", 2, FALSE, "none")
  /\ extract.out = <<2, 1>>

(***************************************************************************)
(* Properties of write_staging (checked under WriteStagingSpec)                 *)
(***************************************************************************)
RowsOf(table, recipe_id) == {r \in stg.tables[table] : r.recipe_id = recipe_id}

PayloadRows(table) ==
  {StagingRows(table, stg.parsed)[i] : i \in DOMAIN StagingRows(table, stg.parsed)}

ChildTables == StagingTables \ {"stg_recipes"}

\* C21: when write_staging has returned, the rows of the recipe in each
\* child table are rows of the parse it was called with, one for every
\* conflict key of that parse and no other, whatever rows the earlier
\* write, complete or broken off, had left.
C21_ChildRowsReplaced ==
  stg.state = "returned" =>
    \A t \in ChildTables :
      /\ RowsOf(t, stg.parsed.recipe_id) \subseteq PayloadRows(t)
      /\ {ConflictKey(t, r) : r \in RowsOf(t, stg.parsed.recipe_id)}
           = {ConflictKey(t, r) : r \in PayloadRows(t)}
      /\ \A r1, r2 \in RowsOf(t, stg.parsed.recipe_id) :
           ConflictKey(t, r1) = ConflictKey(t, r2) => r1 = r2

\* The latest write returned after an earlier write had raised, leaving
\* keyword and ingredient rows the latest parse does not have and no step
\* row.
C21_Witness ==
  /\ stg.phase = "latest" /\ stg.state = "returned" /\ stg.earlier = "raised"
  /\ stg.parsed.keywords = <<>>
  /\ stg.parsed.ingredients = <<"i1">>
  /\ {r \in stg.before["stg_recipe_keywords"] : r.recipe_id = stg.parsed.recipe_id} # {}
  /\ Cardinality({r \in stg.before["stg_recipe_ingredients"] :
                    r.recipe_id = stg.parsed.recipe_id}) = 2
  /\ {r \in stg.before["stg_recipe_steps"] : r.recipe_id = stg.parsed.recipe_id} = {}
  /\ RowsOf("stg_recipe_keywords", stg.parsed.recipe_id) = {}
  /\ Cardinality(RowsOf("stg_recipe_ingredients", stg.parsed.recipe_id)) = 1

\* C22: when write_staging has returned, every normalised text found among
\* the comments of the parse has exactly one row in stg_recipe_comments for
\* the recipe, however many comments share it.
C22_DuplicateCommentsCollapse ==
  stg.state = "returned" =>
    \A i \in DOMAIN stg.parsed.comments :
      Cardinality({r \in RowsOf("stg_recipe_comments", stg.parsed.recipe_id) :
                     normalize_text_for_hash(r.comment_text)
                       = normalize_text_for_hash(stg.parsed.comments[i].text)}) = 1

\* Two comments of the parse differ as written and agree once normalised.
C22_Witness ==
  /\ stg.state = "returned"
  /\ \E i, j \in DOMAIN stg.parsed.comments :
       /\ i # j
       /\ stg.parsed.comments[i].text # stg.parsed.comments[j].text
       /\ stg.parsed.comments[i].text_hash = stg.parsed.comments[j].text_hash
  /\ Cardinality(RowsOf("stg_recipe_comments", stg.parsed.recipe_id)) = 1

(***************************************************************************)
(* Properties of _extract_keywords (checked under KeywordsSpec)            *)
(***************************************************************************)
\* The positions of the separators of s, with the positions just before and
\* just after s.
SeparatorsOf(s) == {0, Len(s) + 1} \cup {i \in DOMAIN s : s[i] \in {",", ";"}}

\* The fragment of s that begins after the separator at p, trimmed.
FragmentAfter(s, p) ==
  LET q == CHOOSE x \in SeparatorsOf(s) :
             x > p /\ \A y \in SeparatorsOf(s) : y > p => x <= y
      inner == {i \in (p + 1)..(q - 1) : s[i] # " "}
  IN  IF inner = {} THEN <<>>
      ELSE LET lo == CHOOSE i \in inner : \A j \in inner : i <= j
               hi == CHOOSE i \in inner : \A j \in inner : i >= j
           IN  SubSeq(s, lo, hi)

\* The non-empty trimmed fragments of s between its separators, in order.
Fragments(s) ==
  LET starts == {p \in SeparatorsOf(s) : p <= Len(s) /\ FragmentAfter(s, p) # <<>>}
      nth(k) == CHOOSE p \in starts : Cardinality({x \in starts : x < p}) = k - 1
  IN  [k \in 1..Cardinality(starts) |-> FragmentAfter(s, nth(k))]

\* C24: for a keywords value that is a string, keywords_raw is that string
\* unchanged, its leading and trailing whitespace included, and keywords is
\* the sequence of its trimmed non-empty fragments between "," and ";".
C24_KeywordsRawVerbatim ==
  (kwd.state = "done" /\ kwd.value.kind = "str") =>
    /\ kwd.raw = Str(kwd.value.chars)
    /\ kwd.parts = Fragments(kwd.value.chars)

(***************************************************************************)
(* Properties of parse_jsonld_recipe (checked under ParserSpec)            *)
(***************************************************************************)
\* C23: parse_jsonld_recipe never raises: whatever the blocks of the page
\* hold, the call ends with absent or with a record.
C23_ParserNeverRaises ==
  doc.state = "done" => doc.result.kind \in {"absent", "record"}

\* The objects of the page that are candidates: the objects of every block
\* that is an object or an array, and the objects in the @graph list of
\* each of them.
PageObjects ==
  LET top == UNION {{doc.blocks[i].items[j] : j \in DOMAIN doc.blocks[i].items} :
                      i \in {x \in DOMAIN doc.blocks : doc.blocks[x].kind \in {"object", "array"}}}
      tops == {o \in top : o.kind = "object"}
      inner == UNION {{o.graph.members[k] : k \in DOMAIN o.graph.members} :
                        o \in {x \in tops : x.graph.kind = "list"}}
  IN  tops \cup {o \in inner : o.kind = "object"}

RecipeObjects == {o \in PageObjects : o.type = "Recipe" \/ o.type = "list_with"}

\* o1 is a candidate before o2: it stands in an earlier block, or earlier
\* in the same array, or both belong to one object and o1 is the earlier
\* @graph member or o2 the object itself.
CandidateBefore(o1, o2) ==
  LET p == o1.name
      q == o2.name
  IN  \/ p[1] < q[1]
      \/ p[1] = q[1] /\ p[2] < q[2]
      \/ p[1] = q[1] /\ p[2] = q[2] /\ Len(p) = 3 /\ Len(q) = 3 /\ p[3] < q[3]
      \/ p[1] = q[1] /\ p[2] = q[2] /\ Len(p) = 3 /\ Len(q) = 2

\* C28: the parser returns absent exactly when no candidate of the page has
\* the type Recipe, and otherwise the record of the first candidate that has
\* it.
C28_FirstRecipeCandidate ==
  doc.state = "done" =>
    /\ doc.result.kind = "absent" <=> RecipeObjects = {}
    /\ RecipeObjects # {} =>
         /\ doc.result.kind = "record"
         /\ \E o \in RecipeObjects :
              /\ doc.result.name = o.name
              /\ \A x \in RecipeObjects \ {o} : CandidateBefore(o, x)

(***************************************************************************)
(* Further properties of the harvester (checked under HarvestSpec)         *)
(***************************************************************************)
NoRepeatedId(ids) == \A i, j \in DOMAIN ids : i # j => ids[i] # ids[j]

\* C31: within a keyword the calls of enqueue_crawl_jobs carry the pages
\* 1, 2, ..., k, each once and in this order: a call carries the page after
\* the one of the previous call, the first call page 1, and it carries the
\* ids of that page, at least one and none twice.
C31_EnqueuePagesContiguous ==
  /\ [](Len(insLog) = lastEnq /\ lastEnq <= applied)
  /\ [][insLog' # insLog => lastEnq' # lastEnq]_vars
  /\ [][lastEnq' # lastEnq =>
          \/ lastEnq' = 0 /\ insLog' = <<>>
          \/ /\ lastEnq' = lastEnq + 1
             /\ applied' = lastEnq'
             /\ Len(insLog') = Len(insLog) + 1
             /\ last'.ok /\ last'.ids # <<>> /\ NoRepeatedId(last'.ids)]_vars

\* Concurrent mode, batches of two: the third page of a keyword, the first
\* of its second batch, has been enqueued with two ids.
C31_Witness ==
  /\ entry = "keyword_async" /\ batch_size = 2
  /\ lastEnq = 3 /\ applied = 3
  /\ Len(last.ids) = 2 /\ NoRepeatedId(last.ids)
====
